---- MODULE Spec2Model ----
(***************************************************************************)
(* Model of the Ameo unified server (src/server.js): the daily-speech      *)
(* memo (GET /api/speech/daily, generateDailySpeeches,                     *)
(* validateAndCombineSpeeches) and the messaging endpoints over the        *)
(* users / conversations / messages tables.                                *)
(*                                                                         *)
(* JavaScript strings that the code inspects character by character        *)
(* (cat_name.trim()) are sequences of one-character strings; strings the   *)
(* code only measures or copies are TLA+ strings.  A request body is a     *)
(* function whose DOMAIN holds the fields that are present.                *)
(***************************************************************************)
EXTENDS Integers, Sequences, FiniteSets, TLC

VARIABLES
    clock,           \* wall clock, in ticks (new Date())
    hasKey,          \* process.env.OPENAI_API_KEY is set
    cachedSpeeches,  \* server.js:26
    cachedDate,      \* server.js:27
    cachedFrom,      \* history: the outcome that filled the cache slot
    sp,              \* GET /api/speech/daily requests: position and locals
    speechRes,       \* the last response of GET /api/speech/daily
    users,           \* table users
    conversations,   \* table conversations
    messages,        \* table messages
    serial,          \* the next value of each table's id sequence (SERIAL)
    dbNow,           \* CURRENT_TIMESTAMP of the database
    msgRes,          \* the last response of a messaging endpoint
    typing_status,   \* table typing_status
    typingLog,       \* history: the upserts of POST /api/typing/set, in order
    rq,              \* overlapping messaging requests: position and locals
    fb,              \* the POST /api/feedback request: position and locals
    fbRes,           \* the last response of POST /api/feedback
    chat,            \* the POST /api/chat request: position and locals
    chatRes          \* the last response of POST /api/chat

speechVars == <<clock, hasKey, cachedSpeeches, cachedDate, cachedFrom, sp, speechRes>>
msgVars == <<users, conversations, messages, serial, dbNow, msgRes>>
typingVars == <<typing_status, typingLog>>
apiVars == <<fb, fbRes, chat, chatRes>>
otherVars == <<typing_status, typingLog, rq, fb, fbRes, chat, chatRes>>
vars == <<clock, hasKey, cachedSpeeches, cachedDate, cachedFrom, sp, speechRes,
          users, conversations, messages, serial, dbNow, msgRes,
          typing_status, typingLog, rq, fb, fbRes, chat, chatRes>>

(***************************************************************************)
(* Bounds of the model.                                                    *)
(***************************************************************************)
MaxClock == 5          \* the clock stops after this many ticks
TicksPerDay == 2       \* ticks in one UTC day
MaxSpeechReqs == 2     \* request slots of GET /api/speech/daily
MaxMessages == 2       \* rows of table messages
MaxInFlight == 2       \* overlapping messaging requests
MaxTypingSets == 3     \* upserts of POST /api/typing/set
TickSeconds == 5       \* seconds between two readings of the database clock
MaxSeconds == 15       \* the database clock stops before this many seconds

Min(a, b) == IF a <= b THEN a ELSE b

(***************************************************************************)
(* JSON values, as JSON.parse builds them.                                 *)
(***************************************************************************)
Undefined == [t |-> "undefined"]
JNull == [t |-> "null"]
JNum(n) == [t |-> "number", n |-> n]
JStr(s) == [t |-> "string", s |-> s]
JArr(items) == [t |-> "array", items |-> items]
JObj(fields) == [t |-> "object", fields |-> fields]
JBool(b) == [t |-> "boolean", b |-> b]

\* JavaScript truthiness of a JSON value (x || y, !x).
Truthy(v) ==
    CASE v.t = "undefined" -> FALSE
      [] v.t = "null" -> FALSE
      [] v.t = "number" -> v.n # 0
      [] v.t = "string" -> v.s # ""
      [] v.t = "chars" -> v.s # <<>>
      [] v.t = "boolean" -> v.b
      [] OTHER -> TRUE

(***************************************************************************)
(* Speech configuration.                                                   *)
(***************************************************************************)
FALLBACK_SPEECHES ==
    [general_tech_roasts |->
        <<"You call *that* code?",
          "Have you tried Stack Overflow?",
          "That's why we have code review.">>,
     ai_news |->
        <<"AI is coming for your job.",
          "Another AI startup. Groundbreaking.",
          "ChatGPT wrote this better.">>,
     figma |->
        <<"Your design system needs a design system.",
          "Figma crashed again? Classic.",
          "That component library is... something.">>,
     science |->
        <<"According to science, you should sleep.",
          "Physics disagrees with your approach.",
          "The laws of thermodynamics called.">>,
     games |->
        <<"Speedrun through the tutorial? Bold.",
          "That's a skill issue.",
          "Press F to respect.">>,
     design_tools |->
        <<"Another design tool emerges.",
          "Better tools won't fix bad design.",
          "Your design needs work, not tools.">>]

\* The keys of SPEECH_CATEGORIES.
SPEECH_CATEGORIES ==
    {"general_tech_roasts", "ai_news", "figma", "science", "games",
     "design_tools"}

MaxSpeechLen == 130      \* s.length <= 130
MaxPerCategory == 5      \* all.slice(0, 5)

(***************************************************************************)
(* validateAndCombineSpeeches(aiSpeeches).  A result is                    *)
(* [threw |-> FALSE, value |-> v] or [threw |-> TRUE].                     *)
(***************************************************************************)
\* aiSpeeches[category]: a TypeError on null, undefined for a key the value
\* does not have (a number, a string or an array has none of the keys).
GetThrows(ai) == ai.t \in {"null", "undefined"}

GetProp(ai, category) ==
    IF ai.t = "object" /\ category \in DOMAIN ai.fields
    THEN ai.fields[category]
    ELSE Undefined

\* const aiList = aiSpeeches[category] || [];
AiList(ai, category) ==
    IF Truthy(GetProp(ai, category)) THEN GetProp(ai, category) ELSE JArr(<<>>)

\* aiList.filter is a function only when aiList is an array.
FilterThrows(aiList) == aiList.t # "array"

ValidSpeech(s) ==
    s.t = "string" /\ Len(s.s) > 0 /\ Len(s.s) <= MaxSpeechLen

ValidAiSpeeches(aiList) ==
    LET kept == SelectSeq(aiList.items, ValidSpeech)
    IN  [i \in 1..Len(kept) |-> kept[i].s]

CombineCategory(fallback, aiList) ==
    LET all == fallback \o ValidAiSpeeches(aiList)
    IN  SubSeq(all, 1, Min(MaxPerCategory, Len(all)))

validateAndCombineSpeeches(ai) ==
    IF GetThrows(ai)
       \/ \E c \in DOMAIN FALLBACK_SPEECHES : FilterThrows(AiList(ai, c))
    THEN [threw |-> TRUE]
    ELSE [threw |-> FALSE,
          value |-> [c \in DOMAIN FALLBACK_SPEECHES |->
                        CombineCategory(FALLBACK_SPEECHES[c], AiList(ai, c))]]

(***************************************************************************)
(* The outcomes of the call to api.openai.com that generateDailySpeeches   *)
(* can meet.  A completion's content is a string with the value JSON.parse *)
(* gives for it (valid = FALSE: JSON.parse throws a SyntaxError).          *)
(***************************************************************************)
S130 == "xxxxxxxxxxxxxxxxxxxxxxxxxxxxxxxxxxxxxxxxxxxxxxxxxxxxxxxxxxxxxxxxxxxxxxxxxxxxxxxxxxxxxxxxxxxxxxxxxxxxxxxxxxxxxxxxxxxxxxxxxxxxxxxxxx"
S131 == "yyyyyyyyyyyyyyyyyyyyyyyyyyyyyyyyyyyyyyyyyyyyyyyyyyyyyyyyyyyyyyyyyyyyyyyyyyyyyyyyyyyyyyyyyyyyyyyyyyyyyyyyyyyyyyyyyyyyyyyyyyyyyyyyyyy"

FourSpeeches(tag) ==
    JArr(<<JStr(tag \o " one"), JStr(tag \o " two"),
           JStr(tag \o " three"), JStr(tag \o " four")>>)

\* What the prompt asks for: four speeches for each category.
AiFull == JObj([c \in SPEECH_CATEGORIES |-> FourSpeeches(c)])

\* Items the filter must drop, a missing category, falsy categories.
AiMixed ==
    JObj([general_tech_roasts |->
              JArr(<<JStr(""), JNum(7), JStr(S131), JStr(S130), JNull,
                     JStr("ok")>>),
          ai_news |-> JNull,
          figma |-> JArr(<<>>),
          science |-> JStr(""),
          games |-> JArr(<<JStr("gg")>>),
          unknown_category |-> FourSpeeches("unknown")])

\* A category that is truthy and not an array.
AiBadList == JObj([figma |-> JStr("Figma crashed"), games |-> FourSpeeches("games")])

ParsedSamples == {AiFull, AiMixed, AiBadList, JNull, JNum(42), JArr(<<JStr("a")>>)}

Contents ==
    {[text |-> "empty", empty |-> TRUE, valid |-> FALSE, value |-> Undefined],
     [text |-> "not json", empty |-> FALSE, valid |-> FALSE, value |-> Undefined]}
    \cup {[text |-> "json", empty |-> FALSE, valid |-> TRUE, value |-> v] :
            v \in ParsedSamples}

\* JSON.parse(content)
JsonParse(content) ==
    IF content.valid THEN [threw |-> FALSE, value |-> content.value]
                     ELSE [threw |-> TRUE]

Outcomes ==
    {[kind |-> "fetch_throws"],        \* fetch rejects (network error)
     [kind |-> "not_ok"],              \* response.ok is false
     [kind |-> "body_not_json"],       \* response.json() rejects
     [kind |-> "no_choices"],          \* data.choices is undefined
     [kind |-> "no_content"]}          \* choices[0]?.message?.content is undefined
    \cup {[kind |-> "content", content |-> c] : c \in Contents}

NoOutcome == [kind |-> "none"]
NoKeyOutcome == [kind |-> "no_key"]    \* OPENAI_API_KEY is not set

(***************************************************************************)
(* generateDailySpeeches().  The body of its try block first: what it      *)
(* returns, or that it threw.                                              *)
(***************************************************************************)
TryGenerate(outcome) ==
    CASE outcome.kind = "fetch_throws" -> [threw |-> TRUE]
      [] outcome.kind = "not_ok" -> [threw |-> TRUE]
      [] outcome.kind = "body_not_json" -> [threw |-> TRUE]
      [] outcome.kind = "no_choices" -> [threw |-> TRUE]
      [] outcome.kind = "no_content" -> [threw |-> TRUE]
      [] outcome.kind = "content" ->
            IF outcome.content.empty
            THEN [threw |-> TRUE]
            ELSE IF JsonParse(outcome.content).threw
                 THEN [threw |-> TRUE]
                 ELSE validateAndCombineSpeeches(JsonParse(outcome.content).value)

\* Mutant: the error is not caught and the promise rejects.
CatchGenerateRethrows(tried) ==
    IF tried.threw
    THEN [rejected |-> TRUE]
    ELSE [rejected |-> FALSE, value |-> tried.value]

\* catch (error) { ... return FALLBACK_SPEECHES; }
CatchGenerate(tried) ==
    IF tried.threw
    THEN [rejected |-> FALSE, value |-> FALLBACK_SPEECHES]
    ELSE [rejected |-> FALSE, value |-> tried.value]

\* The promise of generateDailySpeeches() once the API key is set.
generateDailySpeeches(outcome) == CatchGenerate(TryGenerate(outcome))

\* if (!openaiApiKey) return FALLBACK_SPEECHES;
GenerateWithoutKey == [rejected |-> FALSE, value |-> FALLBACK_SPEECHES]

(***************************************************************************)
(* GET /api/speech/daily                                                   *)
(***************************************************************************)
NoDate == 0    \* cachedDate = ""

\* new Date().toISOString().split("T")[0]: the day of the clock, its time
\* of day dropped.
Today(c) == 1 + (c \div TicksPerDay)

SpeechReqs == 1..MaxSpeechReqs
Idle == [pc |-> "idle"]
NoResponse == [op |-> "none", status |-> 0]

\* Mutants of the cache test: the null test inverted; the date not
\* compared; a fallback in the slot not taken for a hit.
CacheHitInverted(today) == cachedDate = today /\ cachedSpeeches = JNull
CacheHitAnyDay(today) == cachedSpeeches # JNull
CacheHitUnlessFallback(today) ==
    cachedDate = today /\ cachedSpeeches # JNull
                       /\ cachedSpeeches # FALLBACK_SPEECHES

\* if (cachedDate === today && cachedSpeeches)
CacheHit(today) == cachedDate = today /\ cachedSpeeches # JNull

\* cachedSpeeches = speeches; cachedDate = today; res.json({...})
\* or, when generateDailySpeeches rejected, the catch block's 500.
StoreAndRespond(r, today, gen, outcome, fetched) ==
    IF gen.rejected
    THEN /\ speechRes' = [req |-> r, status |-> 500, outcome |-> outcome,
                          generated |-> TRUE, fetched |-> fetched]
         /\ UNCHANGED <<cachedSpeeches, cachedDate, cachedFrom>>
    ELSE /\ cachedSpeeches' = gen.value
         /\ cachedDate' = today
         /\ cachedFrom' = outcome
         /\ speechRes' = [req |-> r, status |-> 200, date |-> today,
                          categories |-> gen.value, cached |-> FALSE,
                          slotDate |-> today, outcome |-> outcome,
                          generated |-> TRUE, fetched |-> fetched]

\* The handler from the request's arrival to its first await that yields:
\* a cache hit and a generation without API key answer at once.
SpeechRequest(r) ==
    /\ sp[r].pc = "idle"
    /\ LET today == Today(clock)
       IN  IF CacheHit(today)
           THEN /\ speechRes' = [req |-> r, status |-> 200, date |-> today,
                                 categories |-> cachedSpeeches, cached |-> TRUE,
                                 slotDate |-> cachedDate, outcome |-> NoOutcome,
                                 generated |-> FALSE, fetched |-> FALSE]
                /\ UNCHANGED <<cachedSpeeches, cachedDate, cachedFrom, sp>>
           ELSE IF ~hasKey
           THEN /\ StoreAndRespond(r, today, GenerateWithoutKey, NoKeyOutcome, FALSE)
                /\ UNCHANGED sp
           ELSE /\ sp' = [sp EXCEPT ![r] = [pc |-> "fetch", today |-> today]]
                /\ UNCHANGED <<cachedSpeeches, cachedDate, cachedFrom, speechRes>>
    /\ UNCHANGED <<clock, hasKey>>
    /\ UNCHANGED <<msgVars, otherVars>>

\* The call to the LLM ends with one of its outcomes; the handler resumes.
SpeechComplete(r) ==
    /\ sp[r].pc = "fetch"
    /\ \E outcome \in Outcomes :
          StoreAndRespond(r, sp[r].today, generateDailySpeeches(outcome),
                          outcome, TRUE)
    /\ sp' = [sp EXCEPT ![r] = Idle]
    /\ UNCHANGED <<clock, hasKey>>
    /\ UNCHANGED <<msgVars, otherVars>>

\* Time passes.
Tick ==
    /\ clock < MaxClock
    /\ clock' = clock + 1
    /\ UNCHANGED <<hasKey, cachedSpeeches, cachedDate, cachedFrom, sp, speechRes>>
    /\ UNCHANGED <<msgVars, otherVars>>

\* Requests arrive one after another: none while another is being served.
NoSpeechInFlight == \A q \in SpeechReqs : sp[q].pc = "idle"

SpeechArrives(r) == NoSpeechInFlight /\ SpeechRequest(r)

SpeechInit ==
    /\ clock = 0
    /\ hasKey \in BOOLEAN
    /\ cachedSpeeches = JNull
    /\ cachedDate = NoDate
    /\ cachedFrom = NoOutcome
    /\ sp = [r \in SpeechReqs |-> Idle]
    /\ speechRes = NoResponse

(***************************************************************************)
(* Strings of request bodies and query strings, as sequences of            *)
(* characters.                                                             *)
(***************************************************************************)
WhiteSpace == {" ", "\t", "\n"}

RECURSIVE TrimStart(_)
TrimStart(s) ==
    IF s # <<>> /\ Head(s) \in WhiteSpace THEN TrimStart(Tail(s)) ELSE s

RECURSIVE TrimEnd(_)
TrimEnd(s) ==
    IF s # <<>> /\ s[Len(s)] \in WhiteSpace
    THEN TrimEnd(SubSeq(s, 1, Len(s) - 1))
    ELSE s

\* String.prototype.trim
Trim(s) == TrimEnd(TrimStart(s))

Digits == <<"0", "1", "2", "3", "4", "5", "6", "7", "8", "9">>
IsDigit(ch) == \E d \in 1..10 : Digits[d] = ch
DigitValue(ch) == (CHOOSE d \in 1..10 : Digits[d] = ch) - 1

\* The value of the longest prefix of digits of s, after the digits read.
RECURSIVE ReadDigits(_, _)
ReadDigits(s, acc) ==
    IF s # <<>> /\ IsDigit(Head(s))
    THEN ReadDigits(Tail(s), 10 * acc + DigitValue(Head(s)))
    ELSE acc

NaN == [nan |-> TRUE]
Num(n) == [nan |-> FALSE, n |-> n]

\* parseInt(string): leading white space skipped, an optional sign, then
\* digits; what follows the digits is ignored; NaN without a digit.
ParseIntDigits(s, sign) ==
    IF s # <<>> /\ IsDigit(Head(s)) THEN Num(sign * ReadDigits(s, 0)) ELSE NaN

ParseIntString(s) ==
    LET t == TrimStart(s)
    IN  IF t # <<>> /\ Head(t) = "-" THEN ParseIntDigits(Tail(t), -1)
        ELSE IF t # <<>> /\ Head(t) = "+" THEN ParseIntDigits(Tail(t), 1)
        ELSE ParseIntDigits(t, 1)

\* parseInt(req.query.x): undefined gives NaN.
ParseIntParam(query, field) ==
    IF field \in DOMAIN query THEN ParseIntString(query[field]) ELSE NaN

\* parseInt(x) || dflt: NaN and 0 are falsy.
OrDefault(parsed, dflt) ==
    IF parsed.nan \/ parsed.n = 0 THEN dflt ELSE parsed.n

\* The decimal text of a count, as COUNT(*) (a bigint) reaches the code.
RECURSIVE ToDigits(_)
ToDigits(n) ==
    IF n < 10 THEN <<Digits[n + 1]>>
    ELSE Append(ToDigits(n \div 10), Digits[(n % 10) + 1])

(***************************************************************************)
(* The tables of initializeDatabase and the queries of the handlers.       *)
(***************************************************************************)
NameMax == 255      \* cat_name VARCHAR(255)
DefaultOffset == 0  \* parseInt(req.query.offset) || 0
DefaultLimit == 50  \* parseInt(req.query.limit) || 50

\* SELECT id FROM users WHERE cat_name = $1
SelectUser(name) == {u \in users : u.cat_name = name}

\* INSERT INTO users (cat_name): rejected by VARCHAR(255) and by UNIQUE.
InsertUserFails(name) ==
    \/ Len(name) > NameMax
    \/ \E u \in users : u.cat_name = name

NewUser(name) == [id |-> serial.users, cat_name |-> name]

\* Mutant: the conversation is looked up in one direction only.
SelectConversationOneWay(a, b) ==
    {c \in conversations : c.user1_id = a /\ c.user2_id = b}

\* SELECT id FROM conversations WHERE (user1_id = $1 AND user2_id = $2)
\*                                 OR (user1_id = $2 AND user2_id = $1)
SelectConversation(a, b) ==
    {c \in conversations :
        \/ c.user1_id = a /\ c.user2_id = b
        \/ c.user1_id = b /\ c.user2_id = a}

\* INSERT INTO conversations (user1_id, user2_id) VALUES ($1, $2)
NewConversation(a, b) ==
    [id |-> serial.conversations, user1_id |-> a, user2_id |-> b,
     created_at |-> dbNow + 1]

\* INSERT INTO messages (conversation_id, sender_id, content): is_read and
\* created_at take their defaults.
NewMessage(conv, sender, content, at) ==
    [id |-> serial.messages, conversation_id |-> conv, sender_id |-> sender,
     content |-> content, is_read |-> FALSE, created_at |-> at]

MessagesOf(conv) == {m \in messages : m.conversation_id = conv}

\* ORDER BY created_at ASC (rows of equal created_at in some order).
RECURSIVE OrderByCreatedAt(_)
OrderByCreatedAt(rows) ==
    IF rows = {} THEN <<>>
    ELSE LET first == CHOOSE m \in rows :
                          \A n \in rows : m.created_at <= n.created_at
         IN  <<first>> \o OrderByCreatedAt(rows \ {first})

\* Mutant: the OFFSET is dropped.
LimitWithoutOffset(seq, limit, offset) == SubSeq(seq, 1, Min(Len(seq), limit))

\* LIMIT $2 OFFSET $3 (for a limit and an offset that are not negative)
LimitOffset(seq, limit, offset) ==
    SubSeq(seq, offset + 1, Min(Len(seq), offset + limit))

\* LIMIT or OFFSET must not be negative.
LimitOffsetFails(limit, offset) == limit < 0 \/ offset < 0

\* JOIN users u ON m.sender_id = u.id
SenderName(m) == (CHOOSE u \in users : u.id = m.sender_id).cat_name

\* Mutant: the UPDATE lacks AND sender_id = $2.
MarkReadAnySender(conv, sender) ==
    {IF m.conversation_id = conv THEN [m EXCEPT !.is_read = TRUE] ELSE m :
        m \in messages}

\* UPDATE messages SET is_read = TRUE
\*   WHERE conversation_id = $1 AND sender_id = $2
MarkRead(conv, sender) ==
    {IF m.conversation_id = conv /\ m.sender_id = sender
        THEN [m EXCEPT !.is_read = TRUE]
        ELSE m : m \in messages}

(***************************************************************************)
(* POST /api/messages/register                                             *)
(***************************************************************************)
\* Mutant: the name is not trimmed before its length is tested.
RegisterInvalidUntrimmed(body) ==
    \/ "cat_name" \notin DOMAIN body
    \/ body.cat_name = <<>>

\* !cat_name || cat_name.trim().length === 0
RegisterInvalid(body) ==
    \/ "cat_name" \notin DOMAIN body
    \/ body.cat_name = <<>>
    \/ Len(Trim(body.cat_name)) = 0

Register(body) ==
    /\ IF RegisterInvalid(body)
       THEN /\ msgRes' = [op |-> "register", status |-> 400]
            /\ UNCHANGED <<users, serial>>
       ELSE IF SelectUser(body.cat_name) # {}
       THEN /\ \E row \in SelectUser(body.cat_name) :
                  msgRes' = [op |-> "register", status |-> 200, id |-> row.id,
                             cat_name |-> body.cat_name, created |-> FALSE]
            /\ UNCHANGED <<users, serial>>
       ELSE IF InsertUserFails(body.cat_name)
       THEN /\ msgRes' = [op |-> "register", status |-> 500]
            /\ UNCHANGED <<users, serial>>
       ELSE /\ users' = users \cup {NewUser(body.cat_name)}
            /\ serial' = [serial EXCEPT !.users = @ + 1]
            /\ msgRes' = [op |-> "register", status |-> 200,
                          id |-> NewUser(body.cat_name).id,
                          cat_name |-> NewUser(body.cat_name).cat_name,
                          created |-> TRUE]
    /\ UNCHANGED <<conversations, messages, dbNow>>
    /\ UNCHANGED <<speechVars, otherVars>>

(***************************************************************************)
(* POST /api/messages/send                                                 *)
(***************************************************************************)
\* Mutant: the content is not tested.
SendInvalidContentUnchecked(body) ==
    \/ "sender_cat_name" \notin DOMAIN body
    \/ body.sender_cat_name = <<>>
    \/ "recipient_cat_name" \notin DOMAIN body
    \/ body.recipient_cat_name = <<>>
    \/ "content" \notin DOMAIN body

\* !sender_cat_name || !recipient_cat_name || !content
SendInvalid(body) ==
    \/ "sender_cat_name" \notin DOMAIN body
    \/ body.sender_cat_name = <<>>
    \/ "recipient_cat_name" \notin DOMAIN body
    \/ body.recipient_cat_name = <<>>
    \/ "content" \notin DOMAIN body
    \/ body.content = ""

\* senderResult.rows.length === 0 || recipientResult.rows.length === 0
SendUserNotFound(body) ==
    \/ SelectUser(body.sender_cat_name) = {}
    \/ SelectUser(body.recipient_cat_name) = {}

\* Get or create the conversation, then insert the message; each INSERT
\* is a statement of its own, at a later time than the one before.
SendInsert(senderId, recipientId, content) ==
    IF SelectConversation(senderId, recipientId) = {}
    THEN /\ conversations' =
               conversations \cup {NewConversation(senderId, recipientId)}
         /\ messages' = messages \cup
               {NewMessage(NewConversation(senderId, recipientId).id,
                           senderId, content, dbNow + 2)}
         /\ serial' = [serial EXCEPT !.conversations = @ + 1,
                                     !.messages = @ + 1]
         /\ dbNow' = dbNow + 2
         /\ msgRes' = [op |-> "send", status |-> 200,
                       id |-> serial.messages, created_at |-> dbNow + 2]
    ELSE /\ \E conv \in SelectConversation(senderId, recipientId) :
               messages' = messages \cup
                   {NewMessage(conv.id, senderId, content, dbNow + 1)}
         /\ serial' = [serial EXCEPT !.messages = @ + 1]
         /\ dbNow' = dbNow + 1
         /\ msgRes' = [op |-> "send", status |-> 200,
                       id |-> serial.messages, created_at |-> dbNow + 1]
         /\ UNCHANGED conversations

Send(body) ==
    /\ IF SendInvalid(body)
       THEN /\ msgRes' = [op |-> "send", status |-> 400]
            /\ UNCHANGED <<conversations, messages, serial, dbNow>>
       ELSE IF SendUserNotFound(body)
       THEN /\ msgRes' = [op |-> "send", status |-> 404]
            /\ UNCHANGED <<conversations, messages, serial, dbNow>>
       ELSE /\ Cardinality(messages) < MaxMessages
            /\ \E s \in SelectUser(body.sender_cat_name),
                  r \in SelectUser(body.recipient_cat_name) :
                  SendInsert(s.id, r.id, body.content)
    /\ UNCHANGED users
    /\ UNCHANGED <<speechVars, otherVars>>

(***************************************************************************)
(* GET /api/messages/:user_cat_name/:other_cat_name                        *)
(***************************************************************************)
NullId == 0     \* conversation_id: null (a SERIAL id is at least 1)

\* A response carries in req what it answers, for the record.
NoRequest == <<>>
AnswerTo(response, req) == [response EXCEPT !.req = req]

\* SELECT COUNT(*) ...: the count arrives as text and is read by parseInt.
CountText(rows) == ToDigits(Cardinality(rows))

\* status: sent by the current user ? (is_read ? "read" : "received") : null
Enrich(m, userId) ==
    [id |-> m.id, content |-> m.content, sender_id |-> m.sender_id,
     created_at |-> m.created_at, is_read |-> m.is_read,
     cat_name |-> SenderName(m),
     status |-> IF m.sender_id = userId
                THEN (IF m.is_read THEN "read" ELSE "received")
                ELSE "null"]

\* The page of messages, enriched.
MessagePage(conv, userId, limit, offset) ==
    LET page == LimitOffset(OrderByCreatedAt(MessagesOf(conv)), limit, offset)
    IN  [i \in 1..Len(page) |-> Enrich(page[i], userId)]

\* has_more: offset + limit < totalCount
HasMore(offset, limit, totalCount) == offset + limit < totalCount

\* The 200 response for an existing conversation.
ConversationResponse(conv, userId, otherId, otherName, offset, limit) ==
    [op |-> "conversation", status |-> 200, req |-> NoRequest,
     conversation_id |-> conv,
     messages |-> MessagePage(conv, userId, limit, offset),
     total_count |-> ParseIntString(CountText(MessagesOf(conv))).n,
     offset |-> offset,
     limit |-> limit,
     has_more |-> HasMore(offset, limit,
                          ParseIntString(CountText(MessagesOf(conv))).n),
     otherUserInfo |-> [cat_name |-> otherName, id |-> otherId]]

\* The 200 response when the two users have no conversation.
NoConversationResponse(otherId, otherName) ==
    [op |-> "conversation", status |-> 200, req |-> NoRequest,
     conversation_id |-> NullId,
     messages |-> <<>>,
     total_count |-> 0,
     otherUserInfo |-> [cat_name |-> otherName, id |-> otherId]]

QueryOffset(query) == OrDefault(ParseIntParam(query, "offset"), DefaultOffset)
QueryLimit(query) == OrDefault(ParseIntParam(query, "limit"), DefaultLimit)

GetConversation(user, other, query) ==
    /\ IF SelectUser(user) = {} \/ SelectUser(other) = {}
       THEN /\ msgRes' = [op |-> "conversation", status |-> 404]
            /\ UNCHANGED messages
       ELSE \E u \in SelectUser(user), o \in SelectUser(other) :
              IF SelectConversation(u.id, o.id) = {}
              THEN /\ msgRes' = AnswerTo(NoConversationResponse(o.id, other),
                                          [user |-> user])
                   /\ UNCHANGED messages
              ELSE \E conv \in SelectConversation(u.id, o.id) :
                     IF LimitOffsetFails(QueryLimit(query), QueryOffset(query))
                     THEN /\ msgRes' = [op |-> "conversation", status |-> 500]
                          /\ UNCHANGED messages
                     ELSE /\ msgRes' = AnswerTo(ConversationResponse(
                                conv.id, u.id, o.id, other,
                                QueryOffset(query), QueryLimit(query)),
                                [user |-> user, query |-> query])
                          /\ messages' = MarkRead(conv.id, o.id)
    /\ UNCHANGED <<users, conversations, serial, dbNow>>
    /\ UNCHANGED <<speechVars, otherVars>>

(***************************************************************************)
(* GET /api/messages/unread/:user_cat_name                                 *)
(***************************************************************************)
\* FROM messages m JOIN conversations c ON m.conversation_id = c.id
\* WHERE (c.user1_id = $1 OR c.user2_id = $1)
\*   AND m.sender_id != $1 AND m.is_read = FALSE
UnreadRows(userId) ==
    {<<m, c>> \in messages \X conversations :
        /\ m.conversation_id = c.id
        /\ (c.user1_id = userId \/ c.user2_id = userId)
        /\ m.sender_id # userId
        /\ m.is_read = FALSE}

UnreadResponse(name) ==
    IF SelectUser(name) = {}
    THEN [op |-> "unread", status |-> 404]
    ELSE LET u == CHOOSE row \in SelectUser(name) : TRUE
         IN  [op |-> "unread", status |-> 200,
              unread_count |-> ParseIntString(CountText(UnreadRows(u.id))).n]

GetUnread(name) ==
    /\ msgRes' = UnreadResponse(name)
    /\ UNCHANGED <<users, conversations, messages, serial, dbNow>>
    /\ UNCHANGED <<speechVars, otherVars>>

(***************************************************************************)
(* GET /api/messages/list/:user_cat_name                                   *)
(***************************************************************************)
\* (SELECT ... FROM messages m WHERE m.conversation_id = c.id
\*   ORDER BY m.created_at DESC LIMIT 1)
LastMessage(conv) ==
    CHOOSE m \in MessagesOf(conv) :
        \A n \in MessagesOf(conv) : n.created_at <= m.created_at

\* Mutant: the subquery lacks AND m.sender_id != $1.
ConversationUnreadAnySender(conv, userId) ==
    Cardinality({m \in messages :
                    m.conversation_id = conv /\ m.is_read = FALSE})

\* COALESCE((SELECT COUNT(*)::INTEGER FROM messages m
\*   WHERE m.conversation_id = c.id AND m.is_read = FALSE
\*     AND m.sender_id != $1), 0)
ConversationUnread(conv, userId) ==
    Cardinality({m \in messages :
                    /\ m.conversation_id = conv
                    /\ m.is_read = FALSE
                    /\ m.sender_id # userId})

UserName(id) == (CHOOSE u \in users : u.id = id).cat_name

ListRow(c, userId) ==
    [id |-> c.id,
     other_cat_name |-> IF c.user1_id = userId THEN UserName(c.user2_id)
                                               ELSE UserName(c.user1_id),
     other_user_id |-> IF c.user1_id = userId THEN c.user2_id
                                              ELSE c.user1_id,
     last_message |-> IF MessagesOf(c.id) = {} THEN "null"
                      ELSE LastMessage(c.id).content,
     last_message_time |-> IF MessagesOf(c.id) = {} THEN NullId
                           ELSE LastMessage(c.id).created_at,
     unread_count |-> ConversationUnread(c.id, userId)]

\* ORDER BY last message time DESC NULLS LAST, c.created_at DESC:
\* c sorts no later than d.
ListBefore(c, d) ==
    IF MessagesOf(c.id) # {} /\ MessagesOf(d.id) # {}
    THEN \/ LastMessage(c.id).created_at > LastMessage(d.id).created_at
         \/ /\ LastMessage(c.id).created_at = LastMessage(d.id).created_at
            /\ c.created_at >= d.created_at
    ELSE IF MessagesOf(c.id) # {} THEN TRUE
    ELSE IF MessagesOf(d.id) # {} THEN FALSE
    ELSE c.created_at >= d.created_at

RECURSIVE OrderConversations(_)
OrderConversations(rows) ==
    IF rows = {} THEN <<>>
    ELSE LET first == CHOOSE c \in rows : \A d \in rows : ListBefore(c, d)
         IN  <<first>> \o OrderConversations(rows \ {first})

\* FROM conversations c JOIN users u1 ... JOIN users u2 ...
\* WHERE c.user1_id = $1 OR c.user2_id = $1
ConversationsOf(userId) ==
    {c \in conversations : c.user1_id = userId \/ c.user2_id = userId}

ListResponse(name) ==
    IF SelectUser(name) = {}
    THEN [op |-> "list", status |-> 404]
    ELSE LET u == CHOOSE row \in SelectUser(name) : TRUE
             rows == OrderConversations(ConversationsOf(u.id))
         IN  [op |-> "list", status |-> 200,
              conversations |-> [i \in 1..Len(rows) |-> ListRow(rows[i], u.id)]]

GetList(name) ==
    /\ msgRes' = ListResponse(name)
    /\ UNCHANGED <<users, conversations, messages, serial, dbNow>>
    /\ UNCHANGED <<speechVars, otherVars>>

(***************************************************************************)
(* The requests the clients send.                                          *)
(***************************************************************************)
CatNames == {<<"a">>, <<"b">>, <<"c">>}
LongName == [i \in 1..(NameMax + 1) |-> "x"]
NameInputs == CatNames \cup {<<>>, <<" ", "\t">>, LongName}

RegisterBodies == {<<>>} \cup {[cat_name |-> n] : n \in NameInputs}

SendBodies ==
    {[sender_cat_name |-> s, recipient_cat_name |-> r, content |-> "hi"] :
        s \in CatNames, r \in CatNames}
    \cup {[sender_cat_name |-> <<>>, recipient_cat_name |-> <<"b">>,
           content |-> "hi"],
          [sender_cat_name |-> <<"a">>, recipient_cat_name |-> <<>>,
           content |-> "hi"],
          [sender_cat_name |-> <<"a">>, recipient_cat_name |-> <<"b">>,
           content |-> ""],
          [sender_cat_name |-> <<"a">>, recipient_cat_name |-> <<"b">>],
          [sender_cat_name |-> <<"a">>, content |-> "hi"],
          [recipient_cat_name |-> <<"b">>, content |-> "hi"]}

Queries ==
    {<<>>,
     [limit |-> <<"1">>],
     [offset |-> <<"1">>, limit |-> <<"1">>],
     [offset |-> <<" ", "2", "x">>, limit |-> <<"0">>],
     [offset |-> <<"x">>, limit |-> <<"-", "1">>]}

MsgInit ==
    /\ users = {}
    /\ conversations = {}
    /\ messages = {}
    /\ serial = [users |-> 1, conversations |-> 1, messages |-> 1]
    /\ dbNow = 0
    /\ msgRes = NoResponse

\* No overlapping request, no typing row, no feedback or chat request yet.
Slots == 1..MaxInFlight

OtherInit ==
    /\ typing_status = {}
    /\ typingLog = <<>>
    /\ rq = [s \in Slots |-> Idle]
    /\ fb = Idle
    /\ fbRes = NoResponse
    /\ chat = Idle
    /\ chatRes = NoResponse

Init == SpeechInit /\ MsgInit /\ OtherInit

(***************************************************************************)
(* The daily-speech endpoint under requests that do not overlap.           *)
(***************************************************************************)
SpeechNext ==
    \/ Tick
    \/ \E r \in SpeechReqs : SpeechArrives(r)
    \/ \E r \in SpeechReqs : SpeechComplete(r)

SpeechSpec == Init /\ [][SpeechNext]_vars

(***************************************************************************)
(* The messaging endpoints under requests that do not overlap: each        *)
(* handler runs from its first query to its response.                      *)
(***************************************************************************)
\* The client has received the response of its last request.
NoRequestInFlight == msgRes = NoResponse

Receive ==
    /\ msgRes # NoResponse
    /\ msgRes' = NoResponse
    /\ UNCHANGED <<users, conversations, messages, serial, dbNow>>
    /\ UNCHANGED <<speechVars, otherVars>>

PostRegister == NoRequestInFlight /\ \E body \in RegisterBodies : Register(body)

PostSend == NoRequestInFlight /\ \E body \in SendBodies : Send(body)

GetMessages ==
    /\ NoRequestInFlight
    /\ \E user \in CatNames, other \in CatNames, query \in Queries :
          GetConversation(user, other, query)

GetUnreadCount == NoRequestInFlight /\ \E name \in CatNames : GetUnread(name)

GetConversationList == NoRequestInFlight /\ \E name \in CatNames : GetList(name)

MsgNext ==
    \/ PostRegister
    \/ PostSend
    \/ GetMessages
    \/ GetUnreadCount
    \/ GetConversationList
    \/ Receive

\* The messaging endpoints do not read the API key.
MsgSpecInit == Init /\ hasKey = TRUE

MsgSpec == MsgSpecInit /\ [][MsgNext]_vars

(***************************************************************************)
(* Text the code inspects with regular expressions, as sequences of        *)
(* characters.  Numbers of a feedback item (confidence) are in hundredths. *)
(***************************************************************************)
\* A string whose characters the code inspects.
JChars(s) == [t |-> "chars", s |-> s]

IsString(v) == v.t \in {"string", "chars"}

\* s has the characters of d from index i on.
StartsWithAt(s, i, d) ==
    /\ i >= 1
    /\ i + Len(d) - 1 <= Len(s)
    /\ SubSeq(s, i, i + Len(d) - 1) = d

\* The least index from i on where s has a character of set, Len(s) + 1
\* when it has none.
RECURSIVE IndexOfAny(_, _, _)
IndexOfAny(s, i, set) ==
    IF i > Len(s) THEN Len(s) + 1
    ELSE IF s[i] \in set THEN i
    ELSE IndexOfAny(s, i + 1, set)

\* The least index from i on where s has the characters of d, Len(s) + 1
\* when it has not.
RECURSIVE IndexOfSeq(_, _, _)
IndexOfSeq(s, i, d) ==
    IF i > Len(s) THEN Len(s) + 1
    ELSE IF StartsWithAt(s, i, d) THEN i
    ELSE IndexOfSeq(s, i + 1, d)

\* text.replace(/d([^x]*)d/g, "$1") where d repeats the character x, and
\* with least = 1 text.replace(/d([^x]+)d/g, "$1"): from the left, each
\* d ... d with no x between loses its two delimiters.
RECURSIVE StripPairs(_, _, _, _, _)
StripPairs(s, i, d, x, least) ==
    IF i > Len(s) THEN <<>>
    ELSE LET j == IndexOfAny(s, i + Len(d), {x})
         IN  IF /\ StartsWithAt(s, i, d)
                /\ j - (i + Len(d)) >= least
                /\ StartsWithAt(s, j, d)
             THEN SubSeq(s, i + Len(d), j - 1)
                    \o StripPairs(s, j + Len(d), d, x, least)
             ELSE <<s[i]>> \o StripPairs(s, i + 1, d, x, least)

\* The grave accent, which a TLA+ string cannot hold.
Backtick == "GRAVE"

Fence == <<Backtick, Backtick, Backtick>>

\* text.replace(/```[\s\S]*?```/g, ""): a fence and all up to the next
\* fence are dropped.
RECURSIVE StripFences(_, _)
StripFences(s, i) ==
    IF i > Len(s) THEN <<>>
    ELSE IF /\ StartsWithAt(s, i, Fence)
            /\ IndexOfSeq(s, i + 3, Fence) <= Len(s)
         THEN StripFences(s, IndexOfSeq(s, i + 3, Fence) + 3)
         ELSE <<s[i]>> \o StripFences(s, i + 1)

\* text.replace(/\n\n+/g, "\n"): a run of newlines becomes one newline.
RECURSIVE SqueezeNewlines(_, _)
SqueezeNewlines(s, i) ==
    IF i > Len(s) THEN <<>>
    ELSE IF s[i] = "\n" /\ i > 1 /\ s[i - 1] = "\n"
         THEN SqueezeNewlines(s, i + 1)
         ELSE <<s[i]>> \o SqueezeNewlines(s, i + 1)

\* The chain of replacements of cleanMarkdownFromFeedback on a string.
CleanMarkdown(s) ==
    LET bold == StripPairs(s, 1, <<"*", "*">>, "*", 0)
        under == StripPairs(bold, 1, <<"_", "_">>, "_", 0)
        star == StripPairs(under, 1, <<"*">>, "*", 0)
        ital == StripPairs(star, 1, <<"_">>, "_", 0)
        block == StripFences(ital, 1)
        code == StripPairs(block, 1, <<Backtick>>, Backtick, 1)
    IN  Trim(SqueezeNewlines(code, 1))

\* cleanMarkdownFromFeedback(text) on a JSON value: a falsy value comes
\* back as it is, a string cleaned; another value has no replace method
\* (TypeError).
cleanMarkdownFromFeedback(v) ==
    IF ~Truthy(v) THEN [threw |-> FALSE, value |-> v]
    ELSE IF v.t = "chars"
         THEN [threw |-> FALSE, value |-> JChars(CleanMarkdown(v.s))]
    ELSE [threw |-> TRUE]

(***************************************************************************)
(* parseNumberedListFormat(text)                                           *)
(***************************************************************************)
\* The index after the digits that s has from index i on.
RECURSIVE SkipDigits(_, _)
SkipDigits(s, i) ==
    IF i <= Len(s) /\ IsDigit(s[i]) THEN SkipDigits(s, i + 1) ELSE i

\* The index after the white space that s has from index i on.
RECURSIVE SkipSpace(_, _)
SkipSpace(s, i) ==
    IF i <= Len(s) /\ s[i] \in WhiteSpace THEN SkipSpace(s, i + 1) ELSE i

\* /\d+\.\s/ matches s at index i.
NumberedAt(s, i) ==
    LET dot == SkipDigits(s, i)
    IN  /\ dot > i
        /\ dot + 1 <= Len(s)
        /\ s[dot] = "."
        /\ s[dot + 1] \in WhiteSpace

\* text.split(/\n(?=\d+\.\s)/): cut at each newline that a numbered item
\* follows.
RECURSIVE SplitSections(_, _)
SplitSections(s, i) ==
    IF i > Len(s) THEN <<s>>
    ELSE IF s[i] = "\n" /\ NumberedAt(s, i + 1)
         THEN <<SubSeq(s, 1, i - 1)>>
                \o SplitSections(SubSeq(s, i + 1, Len(s)), 1)
         ELSE SplitSections(s, i + 1)

\* string.split('\n')
RECURSIVE SplitLines(_)
SplitLines(s) ==
    LET nl == IndexOfAny(s, 1, {"\n"})
    IN  IF nl > Len(s) THEN <<s>>
        ELSE <<SubSeq(s, 1, nl - 1)>> \o SplitLines(SubSeq(s, nl + 1, Len(s)))

\* section.match(/^\d+\.\s+\*\*([^*]+)\*\*:|^\d+\.\s+([^:]+):/) and
\* titleMatch ? (titleMatch[1] || titleMatch[2]) : "".  After the number,
\* the dot and the white space, either ** title **: or a title up to the
\* first colon; when the colon follows the white space at once, the title
\* is the last character of that white space.
SectionTitle(section) ==
    LET dot == SkipDigits(section, 1)
        from == SkipSpace(section, dot + 1)
        star == IndexOfAny(section, from + 2, {"*"})
        colon == IndexOfAny(section, from, {":"})
    IN  IF ~(dot > 1 /\ dot <= Len(section) /\ section[dot] = "."
               /\ from > dot + 1)
        THEN <<>>
        ELSE IF /\ StartsWithAt(section, from, <<"*", "*">>)
                /\ star > from + 2
                /\ StartsWithAt(section, star, <<"*", "*", ":">>)
        THEN SubSeq(section, from + 2, star - 1)
        ELSE IF colon > Len(section) THEN <<>>
        ELSE IF colon > from THEN SubSeq(section, from, colon - 1)
        ELSE IF from > dot + 2 THEN SubSeq(section, from - 1, from - 1)
        ELSE <<>>

\* line.replace(/^-\s+/, '')
StripDash(line) ==
    IF line # <<>> /\ line[1] = "-" /\ SkipSpace(line, 2) > 2
    THEN SubSeq(line, SkipSpace(line, 2), Len(line))
    ELSE line

\* A line of bullets after .map(trim), .filter(starts with '-'),
\* .map(replace and trim) and .map(cleanMarkdownFromFeedback); the empty
\* sequence for a line that a filter drops.
BulletOf(line) ==
    IF Trim(line) # <<>> /\ Trim(line)[1] = "-"
    THEN LET bullet == Trim(StripDash(Trim(line)))
         IN  IF bullet = <<>> THEN <<>> ELSE CleanMarkdown(bullet)
    ELSE <<>>

SectionBullets(section) ==
    LET contentLines == Tail(SplitLines(section))
        bullets == [i \in 1..Len(contentLines) |-> BulletOf(contentLines[i])]
    IN  SelectSeq(bullets, LAMBDA b : b # <<>>)

ListItem(feedback) ==
    [feedback |-> JChars(feedback), category |-> JStr("general"),
     confidence |-> JNum(80)]

\* The items of one section: one for each bullet, the title before the
\* first bullet (and each bullet equal to it); the title alone without
\* bullets.
SectionItems(section) ==
    LET title == IF SectionTitle(section) = <<>> THEN <<>>
                 ELSE CleanMarkdown(SectionTitle(section))
        bullets == SectionBullets(section)
    IN  IF Len(bullets) > 0
        THEN [i \in 1..Len(bullets) |->
                ListItem(IF bullets[1] = bullets[i] /\ title # <<>>
                         THEN title \o <<":", " ">> \o bullets[i]
                         ELSE bullets[i])]
        ELSE IF title # <<>> THEN <<ListItem(title)>>
        ELSE <<>>

RECURSIVE ConcatItems(_)
ConcatItems(sections) ==
    IF sections = <<>> THEN <<>>
    ELSE SectionItems(Head(sections)) \o ConcatItems(Tail(sections))

parseNumberedListFormat(text) ==
    IF text = <<>> THEN <<>> ELSE ConcatItems(SplitSections(text, 1))

(***************************************************************************)
(* generateDesignFeedback(frameData): the texts the model can answer with, *)
(* and what the code makes of them.                                        *)
(***************************************************************************)
\* [{"feedback":"**Grid**","category":"layout"},{"feedback":"","confidence":0.9}]
JsonTwoItems ==
    <<"[", "{", "\"", "f", "e", "e", "d", "b", "a", "c", "k", "\"",
      ":", "\"", "*", "*", "G", "r", "i", "d", "*", "*", "\"", ",",
      "\"", "c", "a", "t", "e", "g", "o", "r", "y", "\"", ":", "\"",
      "l", "a", "y", "o", "u", "t", "\"", "}", ",", "{", "\"", "f",
      "e", "e", "d", "b", "a", "c", "k", "\"", ":", "\"", "\"", ",",
      "\"", "c", "o", "n", "f", "i", "d", "e", "n", "c", "e", "\"",
      ":", "0", ".", "9", "}", "]">>

\* [7,"x"]
JsonScalars ==
    <<"[", "7", ",", "\"", "x", "\"", "]">>

\* []
JsonEmptyArray ==
    <<"[", "]">>

\* [null]
JsonNullItem ==
    <<"[", "n", "u", "l", "l", "]">>

\* {"feedback":5}
JsonNumberFeedback ==
    <<"{", "\"", "f", "e", "e", "d", "b", "a", "c", "k", "\"", ":",
      "5", "}">>

\* {"feedback":"_ok_","category":"color"}
JsonObject ==
    <<"{", "\"", "f", "e", "e", "d", "b", "a", "c", "k", "\"", ":",
      "\"", "_", "o", "k", "_", "\"", ",", "\"", "c", "a", "t", "e",
      "g", "o", "r", "y", "\"", ":", "\"", "c", "o", "l", "o", "r",
      "\"", "}">>

\* {"n":1}
JsonNoFeedback ==
    <<"{", "\"", "n", "\"", ":", "1", "}">>

\* {"feedback":"a"}
JsonSmallObject ==
    <<"{", "\"", "f", "e", "e", "d", "b", "a", "c", "k", "\"", ":",
      "\"", "a", "\"", "}">>

\* [{"feedback":"a"},7]
JsonObjectAndNumber ==
    <<"[", "{", "\"", "f", "e", "e", "d", "b", "a", "c", "k", "\"",
      ":", "\"", "a", "\"", "}", ",", "7", "]">>

\* JSON.parse(text) on the texts the matches below can hand to it; any
\* other of them is not JSON (SyntaxError).
ParseJson(text) ==
    CASE text = JsonTwoItems ->
            [threw |-> FALSE,
             value |-> JArr(<<JObj([feedback |-> JChars(<<"*", "*", "G", "r", "i", "d", "*", "*">>),
                                    category |-> JStr("layout")]),
                              JObj([feedback |-> JChars(<<>>),
                                    confidence |-> JNum(90)])>>)]
      [] text = JsonScalars ->
            [threw |-> FALSE, value |-> JArr(<<JNum(700), JChars(<<"x">>)>>)]
      [] text = JsonEmptyArray ->
            [threw |-> FALSE, value |-> JArr(<<>>)]
      [] text = JsonNullItem ->
            [threw |-> FALSE, value |-> JArr(<<JNull>>)]
      [] text = <<"[">> \o JsonNumberFeedback \o <<"]">> ->
            [threw |-> FALSE,
             value |-> JArr(<<JObj([feedback |-> JNum(500)])>>)]
      [] text = JsonNumberFeedback ->
            [threw |-> FALSE, value |-> JObj([feedback |-> JNum(500)])]
      [] text = JsonObject ->
            [threw |-> FALSE,
             value |-> JObj([feedback |-> JChars(<<"_", "o", "k", "_">>),
                             category |-> JStr("color")])]
      [] text = JsonNoFeedback ->
            [threw |-> FALSE, value |-> JObj([n |-> JNum(100)])]
      [] text = JsonObjectAndNumber ->
            [threw |-> FALSE,
             value |-> JArr(<<JObj([feedback |-> JChars(<<"a">>)]),
                              JNum(700)>>)]
      [] text = JsonSmallObject ->
            [threw |-> FALSE, value |-> JObj([feedback |-> JChars(<<"a">>)])]
      [] OTHER -> [threw |-> TRUE]

\* The texts of data.output[0].content[0].text.
FeedbackTexts ==
    {JsonTwoItems,
     <<"H", "e", "r", "e", ":", " ">> \o JsonScalars \o <<" ", "d", "o", "n", "e">>,
     JsonEmptyArray,
     JsonNullItem,
     <<"[">> \o JsonNumberFeedback \o <<"]">>,
     <<"[", "o", "o", "p", "s", "]", " ">> \o JsonObject,
     JsonNoFeedback,
     <<"{", "\"", "a", "\"", ":", "1", "}", " ", "{", "\"", "b", "\"",
      ":", "2", "}">>,
     <<"[">> \o JsonSmallObject \o <<"]", " ", "a", "n", "d", " ", "[", "x", "]">>,
     JsonObjectAndNumber,
     <<"1", ".", " ", "*", "*", "L", "a", "y", "o", "u", "t", ":", "*",
      "*", "\n", "-", " ", "U", "s", "e", " ", "a", " ", "g", "r", "i",
      "d", "\n", "-", " ", "A", "l", "i", "g", "n", " ", "*", "*", "l",
      "e", "f", "t", "*", "*", "\n", "2", ".", " ", "C", "o", "l", "o",
      "r", ":", " ", "m", "o", "r", "e">>,
     <<"1", ".", " ", "N", "o", "t", "e", ":", " ", "s", "e", "e", " ",
      "[", "a", ",", " ", "b", "]">>,
     <<"L", "o", "o", "k", "s", " ", "*", "*", "g", "o", "o", "d", "*",
      "*">>,
     <<>>}

\* The greatest index where s has the character ch, 0 when it has none.
RECURSIVE LastIndexOf(_, _, _)
LastIndexOf(s, i, ch) ==
    IF i < 1 THEN 0
    ELSE IF s[i] = ch THEN i
    ELSE LastIndexOf(s, i - 1, ch)

NoMatch == [found |-> FALSE]

\* content.match(/\[[\s\S]*\]/) and content.match(/\{[\s\S]*\}/): from the
\* first opening character to the last closing character after it.
MatchBetween(content, open, close) ==
    LET first == IndexOfAny(content, 1, {open})
        last == LastIndexOf(content, Len(content), close)
    IN  IF first <= Len(content) /\ last > first
        THEN [found |-> TRUE, text |-> SubSeq(content, first, last)]
        ELSE NoMatch

\* item.feedback, item.category, item.confidence: a TypeError on null,
\* undefined for a field the value does not have.
Field(v, name) ==
    IF v.t = "object" /\ name \in DOMAIN v.fields THEN v.fields[name]
    ELSE Undefined

OrElse(v, dflt) == IF Truthy(v) THEN v ELSE dflt

\* { feedback: cleanMarkdownFromFeedback(item.feedback) || "Nice design!",
\*   category: item.category || "general",
\*   confidence: item.confidence || 0.8 }
ItemThrows(item) ==
    item.t = "null" \/ cleanMarkdownFromFeedback(Field(item, "feedback")).threw

FeedbackItem(item) ==
    [feedback |-> OrElse(cleanMarkdownFromFeedback(Field(item, "feedback")).value,
                         JStr("Nice design!")),
     category |-> OrElse(Field(item, "category"), JStr("general")),
     confidence |-> OrElse(Field(item, "confidence"), JNum(80))]

Returned(items) == [returned |-> TRUE, items |-> items]
FellThrough == [returned |-> FALSE]

\* Stage 1: the bracketed match, parsed as a non-empty array; an error
\* thrown while parsing or while mapping the items is caught and logged.
ArrayStage(content) ==
    LET arrayMatch == MatchBetween(content, "[", "]")
        parsed == ParseJson(arrayMatch.text)
    IN  IF ~arrayMatch.found \/ parsed.threw THEN FellThrough
        ELSE IF parsed.value.t # "array" \/ Len(parsed.value.items) = 0
        THEN FellThrough
        ELSE IF \E i \in 1..Len(parsed.value.items) :
                    ItemThrows(parsed.value.items[i])
        THEN FellThrough
        ELSE Returned([i \in 1..Len(parsed.value.items) |->
                           FeedbackItem(parsed.value.items[i])])

\* Stage 2: the braced match, parsed as one object.
ObjectStage(content) ==
    LET objMatch == MatchBetween(content, "{", "}")
        parsed == ParseJson(objMatch.text)
    IN  IF ~objMatch.found \/ parsed.threw THEN FellThrough
        ELSE IF ItemThrows(parsed.value) THEN FellThrough
        ELSE Returned(<<FeedbackItem(parsed.value)>>)

\* Stage 3: the numbered list.
ListStage(content) ==
    IF Len(parseNumberedListFormat(content)) > 0
    THEN Returned(parseNumberedListFormat(content))
    ELSE FellThrough

\* Stage 4: the raw content.
RawStage(content) ==
    Returned(<<[feedback |-> cleanMarkdownFromFeedback(JChars(content)).value,
                category |-> JStr("general"),
                confidence |-> JNum(75)]>>)

\* server.js:599-655, for a content that is a string.
ParseFeedback(content) ==
    IF ArrayStage(content).returned THEN ArrayStage(content).items
    ELSE IF ObjectStage(content).returned THEN ObjectStage(content).items
    ELSE IF ListStage(content).returned THEN ListStage(content).items
    ELSE RawStage(content).items

(***************************************************************************)
(* generateSimpleFeedback and generateDesignFeedback.                      *)
(***************************************************************************)
\* Values of Math.random(), in hundredths.
RandomValues == {0, 99}
Randoms == [feedback : RandomValues, category : RandomValues,
            confidence : RandomValues]

feedback_list ==
    <<[feedback |-> "Great design! Consider testing on different screen sizes.",
       category |-> "layout"],
      [feedback |-> "Nice work! Ensure sufficient contrast for accessibility.",
       category |-> "accessibility"],
      [feedback |-> "Clean layout! Make sure spacing is consistent.",
       category |-> "spacing"],
      [feedback |-> "Good visual design! Consider the user experience on mobile.",
       category |-> "responsive"]>>

\* Math.floor(Math.random() * feedback_list.length), from 1.
RandomIndex(r) == ((r * Len(feedback_list)) \div 100) + 1

\* generateSimpleFeedback(frameData) with the three values of Math.random().
generateSimpleFeedback(rnd) ==
    <<[feedback |-> JStr(feedback_list[RandomIndex(rnd.feedback)].feedback),
       category |-> JStr(feedback_list[RandomIndex(rnd.category)].category),
       confidence |-> JNum(70 + ((rnd.confidence * 20) \div 100))]>>

Nullish(v) == v.t \in {"null", "undefined"}

\* { ...frame.frameData, svgBase64: frame.svgBase64 }
FrameDataWithPNG(frame) ==
    LET frameData == Field(frame, "frameData")
        own == IF frameData.t = "object" THEN DOMAIN frameData.fields ELSE {}
    IN  JObj([f \in own \cup {"svgBase64"} |->
                IF f = "svgBase64" THEN Field(frame, "svgBase64")
                ELSE frameData.fields[f]])

\* frameData.svgBase64.startsWith(...) of a value that is no string.
PromptThrows(frameData) ==
    /\ Truthy(Field(frameData, "svgBase64"))
    /\ Field(frameData, "svgBase64").t # "chars"

\* const isEmpty = !frameData.fills || frameData.fills.length === 0
IsEmptyFrame(frameData) ==
    \/ ~Truthy(Field(frameData, "fills"))
    \/ /\ Field(frameData, "fills").t = "array"
       /\ Len(Field(frameData, "fills").items) = 0

\* The branch that builds the prompt (server.js:445-520).
PromptKind(frameData) ==
    LET svg == Field(frameData, "svgBase64")
    IN  IF Truthy(svg)
        THEN IF StartsWithAt(svg.s, 1, <<"F", "R", "A", "M", "E", "_", "C", "O", "N", "T", "E", "N", "T",
      ":">>) THEN "content"
             ELSE IF StartsWithAt(svg.s, 1, <<"i", "V", "B", "O", "R", "w", "0", "K", "G", "g", "o">>) THEN "png"
             ELSE "svg"
        ELSE IF IsEmptyFrame(frameData) THEN "empty"
        ELSE "metadata"

\* The outcomes of the call to api.openai.com/v1/responses.
FeedbackOutcomes ==
    {[kind |-> "fetch_throws"],       \* fetch rejects (network error)
     [kind |-> "not_ok"],             \* response.ok is false
     [kind |-> "body_not_json"],      \* response.json() rejects
     [kind |-> "no_output"],          \* data.output[0].content[0] is missing
     [kind |-> "no_text"]}            \* content[0].text is undefined
    \cup {[kind |-> "text", text |-> t] : t \in FeedbackTexts}

\* The try block of generateDesignFeedback from the fetch on.
TryFeedback(outcome) ==
    CASE outcome.kind = "fetch_throws" -> [threw |-> TRUE]
      [] outcome.kind = "not_ok" -> [threw |-> TRUE]
      [] outcome.kind = "body_not_json" -> [threw |-> TRUE]
      [] outcome.kind = "no_output" -> [threw |-> TRUE]
      [] outcome.kind = "no_text" -> [threw |-> TRUE]
      [] outcome.kind = "text" ->
            [threw |-> FALSE, value |-> ParseFeedback(outcome.text)]

\* Mutant: an error of the call leaves the list empty.
CatchFeedbackEmpty(tried, rnd) ==
    IF tried.threw THEN <<>> ELSE tried.value

\* catch (error) { return generateSimpleFeedback(frameData); }
CatchFeedback(tried, rnd) ==
    IF tried.threw THEN generateSimpleFeedback(rnd) ELSE tried.value

\* generateDesignFeedback reaches its fetch.
CallsApi(frameData) == hasKey /\ ~PromptThrows(frameData)

\* What the promise of generateDesignFeedback resolves with.
generateDesignFeedback(frameData, outcome, rnd) ==
    IF ~hasKey THEN generateSimpleFeedback(rnd)
    ELSE IF PromptThrows(frameData) THEN CatchFeedback([threw |-> TRUE], rnd)
    ELSE CatchFeedback(TryFeedback(outcome), rnd)

(***************************************************************************)
(* POST /api/feedback                                                      *)
(***************************************************************************)
\* Mutant: an empty array passes the validation.
FramesInvalidEmptyAllowed(frames) ==
    \/ ~Truthy(frames)
    \/ frames.t # "array"

\* !frames || !Array.isArray(frames) || frames.length === 0
FramesInvalid(frames) ==
    \/ ~Truthy(frames)
    \/ frames.t # "array"
    \/ Len(frames.items) = 0

\* frames.forEach(... frame.frameData.name ...): a TypeError when the
\* frameData of a frame is null or undefined.
FrameNameThrows(frame) == Nullish(Field(frame, "frameData"))

LogThrows(frames) ==
    \E i \in 1..Len(frames.items) : FrameNameThrows(frames.items[i])

Placeholder ==
    [feedback |-> JStr("Unable to generate feedback at this time"),
     category |-> JStr("general"),
     confidence |-> JNum(0)]

ForFrame(frame, item) ==
    [frameId |-> Field(frame, "frameId"), feedback |-> item.feedback,
     category |-> item.category, confidence |-> item.confidence]

\* What one turn of the loop appends for its frame: the items of
\* feedbackArray, and the placeholder when the try block throws after them.
FrameItems(frame, feedbackArray) ==
    [i \in 1..Len(feedbackArray) |-> ForFrame(frame, feedbackArray[i])]
      \o (IF FrameNameThrows(frame) THEN <<ForFrame(frame, Placeholder)>>
          ELSE <<>>)

\* The turn for frame fb.i ends: the next turn, or res.json(feedbackList).
FrameDone(feedbackArray) ==
    LET items == FrameItems(fb.frames[fb.i], feedbackArray)
    IN  IF fb.i < Len(fb.frames)
        THEN /\ fb' = [fb EXCEPT !.pc = "frame", !.i = @ + 1,
                                 !.list = @ \o items,
                                 !.counts = Append(@, Len(items))]
             /\ UNCHANGED fbRes
        ELSE /\ fb' = Idle
             /\ fbRes' = [op |-> "feedback", status |-> 200, body |-> fb.body,
                          list |-> fb.list \o items,
                          counts |-> Append(fb.counts, Len(items)),
                          calls |-> fb.calls]

\* The request arrives: validation and the log of the frames.
FeedbackArrives(body) ==
    /\ fb.pc = "idle"
    /\ LET frames == Field(JObj(body), "frames")
       IN  IF FramesInvalid(frames)
           THEN /\ fbRes' = [op |-> "feedback", status |-> 400, body |-> body,
                             error |-> "Missing or invalid frames array",
                             calls |-> <<>>]
                /\ UNCHANGED fb
           ELSE IF LogThrows(frames)
           THEN /\ fbRes' = [op |-> "feedback", status |-> 500, body |-> body,
                             error |-> "Failed to generate feedback",
                             calls |-> <<>>]
                /\ UNCHANGED fb
           ELSE IF Len(frames.items) = 0     \* a loop of no turn
           THEN /\ fbRes' = [op |-> "feedback", status |-> 200, body |-> body,
                             list |-> <<>>, counts |-> <<>>, calls |-> <<>>]
                /\ UNCHANGED fb
           ELSE /\ fb' = [pc |-> "frame", body |-> body, frames |-> frames.items,
                          i |-> 1, list |-> <<>>, counts |-> <<>>,
                          calls |-> <<>>]
                /\ fbRes' = NoResponse
    /\ UNCHANGED <<chat, chatRes, rq, typing_status, typingLog>>
    /\ UNCHANGED <<speechVars, msgVars>>

\* A turn of the loop calls generateDesignFeedback: it resolves at once
\* without the API, or the request to the API is sent.
FeedbackCall ==
    /\ fb.pc = "frame"
    /\ LET frameData == FrameDataWithPNG(fb.frames[fb.i])
       IN  IF CallsApi(frameData)
           THEN /\ fb' = [fb EXCEPT !.pc = "fetch",
                             !.calls = Append(@, [frame |-> fb.i,
                                                  prompt |-> PromptKind(frameData),
                                                  appended |-> Len(fb.list)])]
                /\ UNCHANGED fbRes
           ELSE \E rnd \in Randoms :
                   FrameDone(generateDesignFeedback(frameData, NoOutcome, rnd))
    /\ UNCHANGED <<chat, chatRes, rq, typing_status, typingLog>>
    /\ UNCHANGED <<speechVars, msgVars>>

\* The call to the API ends with one of its outcomes.
FeedbackFetched ==
    /\ fb.pc = "fetch"
    /\ \E outcome \in FeedbackOutcomes, rnd \in Randoms :
          FrameDone(generateDesignFeedback(FrameDataWithPNG(fb.frames[fb.i]),
                                           outcome, rnd))
    /\ UNCHANGED <<chat, chatRes, rq, typing_status, typingLog>>
    /\ UNCHANGED <<speechVars, msgVars>>

\* The frames of the requests.
FrameHome ==
    JObj([frameId |-> JStr("f1"),
          frameData |-> JObj([name |-> JStr("Home"),
                              fills |-> JArr(<<JStr("#fff")>>)])])
FrameBlank ==
    JObj([frameId |-> JStr("f2"),
          frameData |-> JObj([name |-> JStr("Blank"), fills |-> JArr(<<>>)])])
FramePng ==
    JObj([frameId |-> JStr("f3"),
          frameData |-> JObj([name |-> JStr("Shot")]),
          svgBase64 |-> JChars(<<"i", "V", "B", "O", "R", "w", "0", "K", "G", "g", "o", "A", "A",
      "A", "A">>)])
FrameContent ==
    JObj([frameId |-> JStr("f4"),
          frameData |-> JObj([name |-> JStr("Tree")]),
          svgBase64 |-> JChars(<<"F", "R", "A", "M", "E", "_", "C", "O", "N", "T", "E", "N", "T",
      ":", "a", "b", "c">>)])
FrameSvg ==
    JObj([frameId |-> JStr("f5"),
          frameData |-> JObj([name |-> JStr("Icon")]),
          svgBase64 |-> JChars(<<"P", "H", "N", "2", "Z", "z", "4", "=">>)])
FrameBadPng ==
    JObj([frameId |-> JStr("f6"),
          frameData |-> JObj([name |-> JStr("Odd")]),
          svgBase64 |-> JNum(100)])
FrameNoData == JObj([frameId |-> JStr("f7")])
FrameNullData == JObj([frameId |-> JStr("f8"), frameData |-> JNull])

FrameArrays ==
    {<<FrameHome>>, <<FrameBlank>>, <<FramePng>>, <<FrameContent>>,
     <<FrameSvg>>, <<FrameBadPng>>,
     <<FrameHome, FrameBlank>>, <<FrameBlank, FrameHome>>,
     <<FrameHome, FrameHome>>, <<FrameBadPng, FramePng>>,
     <<FrameNoData>>, <<FrameNullData>>,
     <<FrameHome, FrameNoData>>, <<FrameNoData, FrameHome>>}

FeedbackBodies ==
    {[other |-> JNum(100)],
     [frames |-> JNull],
     [frames |-> JStr("")],
     [frames |-> JStr("frames")],
     [frames |-> JNum(0)],
     [frames |-> JNum(300)],
     [frames |-> JObj([length |-> JNum(100)])],
     [frames |-> JArr(<<>>)]}
    \cup {[frames |-> JArr(a)] : a \in FrameArrays}

PostFeedback == \E body \in FeedbackBodies : FeedbackArrives(body)

FeedbackNext ==
    \/ PostFeedback
    \/ FeedbackCall
    \/ FeedbackFetched

FeedbackSpec == Init /\ [][FeedbackNext]_vars

(***************************************************************************)
(* POST /api/chat and the knowledge base.                                  *)
(***************************************************************************)
\* CAT_KNOWLEDGE_BASE in declaration order, which is the order of
\* Object.entries: the key with its patterns, and the answer (an emoji is
\* written out in words).
CAT_KNOWLEDGE_BASE ==
    <<[patterns |->
         <<"w", "h", "o", " ", "i", "s", " ", "y", "o", "u", "r", " ", "f",
      "o", "u", "n", "d", "e", "r", "|", "w", "h", "o", " ", "c", "r",
      "e", "a", "t", "e", "d", " ", "y", "o", "u", "|", "w", "h", "o",
      " ", "m", "a", "d", "e", " ", "y", "o", "u">>,
       answer |-> "Oh his name is Achmad, he's a product designer based in Indonesia. Pretty cool, right?"],
      [patterns |->
         <<"a", "c", "h", "m", "a", "d">>,
       answer |-> "That's my creator! He's a talented product designer from Indonesia."],
      [patterns |->
         <<"f", "o", "u", "n", "d", "e", "r", "|", "c", "r", "e", "a", "t",
      "o", "r">>,
       answer |-> "My creator is Achmad, a product designer based in Indonesia."],
      [patterns |->
         <<"w", "h", "o", " ", "a", "r", "e", " ", "y", "o", "u", "|", "w",
      "h", "a", "t", " ", "a", "r", "e", " ", "y", "o", "u", "|", "w",
      "h", "a", "t", "'", "s", " ", "y", "o", "u", "r", " ", "n", "a",
      "m", "e">>,
       answer |-> "I'm Ameo, your sarcastic design assistant cat! Here to make your design journey less painful."],
      [patterns |->
         <<"a", "b", "o", "u", "t", " ", "a", "m", "e", "o", "|", "a", "b",
      "o", "u", "t", " ", "m", "e">>,
       answer |-> "I'm Ameo - part design consultant, part comedian, 100% cat. Here to help with your design work while being cheeky about it."],
      [patterns |->
         <<"w", "h", "a", "t", " ", "d", "o", " ", "y", "o", "u", " ", "d",
      "o">>,
       answer |-> "I analyze your designs, give feedback, and roast your kerning. All with a smile."],
      [patterns |->
         <<"m", "e", "o", "w", "|", "p", "u", "r", "r", "r", "|", "p", "u",
      "r", "r">>,
       answer |-> "Meow right back at you! (cat)"],
      [patterns |->
         <<"p", "e", "t", " ", "m", "e", "|", "p", "e", "t", "|", "h", "e",
      "l", "l", "o">>,
       answer |-> "Thanks for the love! Keep it coming."],
      [patterns |->
         <<"d", "o", " ", "y", "o", "u", " ", "l", "i", "k", "e", " ", "c",
      "a", "t", "s">>,
       answer |-> "I AM a cat, so that's obviously yes."],
      [patterns |->
         <<"a", "r", "e", " ", "y", "o", "u", " ", "r", "e", "a", "l">>,
       answer |-> "As real as pixels get!"],
      [patterns |->
         <<"g", "o", "o", "d", " ", "d", "e", "s", "i", "g", "n", "|", "w",
      "h", "a", "t", " ", "i", "s", " ", "g", "o", "o", "d", " ", "d",
      "e", "s", "i", "g", "n">>,
       answer |-> "Good design is when users don't even notice it. That's when you know you nailed it."],
      [patterns |->
         <<"t", "y", "p", "o", "g", "r", "a", "p", "h", "y">>,
       answer |-> "Typography is half of design. Get it right and your users will thank you."],
      [patterns |->
         <<"c", "o", "l", "o", "r", " ", "c", "o", "n", "t", "r", "a", "s",
      "t">>,
       answer |-> "Not enough contrast? Your design is basically invisible."],
      [patterns |->
         <<"s", "p", "a", "c", "i", "n", "g", "|", "w", "h", "i", "t", "e",
      "s", "p", "a", "c", "e">>,
       answer |-> "Spacing is underrated. It's the difference between chaos and elegance."],
      [patterns |->
         <<"h", "e", "l", "p", "|", "t", "i", "p", "s">>,
       answer |-> "Ask me anything about design! I've got opinions on everything from colors to kerning."]>>

UpperCase ==
    <<"A", "B", "C", "D", "E", "F", "G", "H", "I", "J", "K", "L", "M",
      "N", "O", "P", "Q", "R", "S", "T", "U", "V", "W", "X", "Y", "Z">>
LowerCase ==
    <<"a", "b", "c", "d", "e", "f", "g", "h", "i", "j", "k", "l", "m",
      "n", "o", "p", "q", "r", "s", "t", "u", "v", "w", "x", "y", "z">>

\* String.prototype.toLowerCase
ToLowerCase(s) ==
    [i \in 1..Len(s) |->
        IF \E k \in 1..26 : UpperCase[k] = s[i]
        THEN LowerCase[CHOOSE k \in 1..26 : UpperCase[k] = s[i]]
        ELSE s[i]]

\* patterns.split("|")
RECURSIVE SplitBar(_)
SplitBar(s) ==
    LET bar == IndexOfAny(s, 1, {"|"})
    IN  IF bar > Len(s) THEN <<s>>
        ELSE <<SubSeq(s, 1, bar - 1)>> \o SplitBar(SubSeq(s, bar + 1, Len(s)))

\* lowerMessage.includes(pattern)
Includes(s, pattern) == IndexOfSeq(s, 1, pattern) <= Len(s) \/ pattern = <<>>

EntryMatches(lowerMessage, entry) ==
    \E p \in 1..Len(SplitBar(entry.patterns)) :
        Includes(lowerMessage, ToLowerCase(SplitBar(entry.patterns)[p]))

\* The loop over Object.entries(CAT_KNOWLEDGE_BASE) from entry k on.
RECURSIVE AnswerFrom(_, _)
AnswerFrom(lowerMessage, k) ==
    IF k > Len(CAT_KNOWLEDGE_BASE) THEN JNull
    ELSE IF EntryMatches(lowerMessage, CAT_KNOWLEDGE_BASE[k])
    THEN JStr(CAT_KNOWLEDGE_BASE[k].answer)
    ELSE AnswerFrom(lowerMessage, k + 1)

\* Mutant: the loop runs from the last entry to the first.
RECURSIVE AnswerDownFrom(_, _)
AnswerDownFrom(lowerMessage, k) ==
    IF k < 1 THEN JNull
    ELSE IF EntryMatches(lowerMessage, CAT_KNOWLEDGE_BASE[k])
    THEN JStr(CAT_KNOWLEDGE_BASE[k].answer)
    ELSE AnswerDownFrom(lowerMessage, k - 1)

findKnowledgeBaseAnswerLast(userMessage) ==
    AnswerDownFrom(Trim(ToLowerCase(userMessage)), Len(CAT_KNOWLEDGE_BASE))

findKnowledgeBaseAnswer(userMessage) ==
    AnswerFrom(Trim(ToLowerCase(userMessage)), 1)

\* !message || typeof message !== "string"
ChatInvalid(message) == ~Truthy(message) \/ message.t # "chars"

HistoryKept == 5      \* conversationHistory.slice(-5)

\* The messages of the request to the API: the system prompt, the last
\* five of a non-empty array conversationHistory, the user's message.
ChatMessagesSent(body) ==
    LET history == Field(JObj(body), "conversationHistory")
        recent == IF history.t = "array" /\ Len(history.items) > 0
                  THEN SubSeq(history.items,
                              IF Len(history.items) > HistoryKept
                              THEN Len(history.items) - HistoryKept + 1 ELSE 1,
                              Len(history.items))
                  ELSE <<>>
    IN  <<"system">> \o recent \o <<"user">>

\* The outcomes of the call to api.openai.com/v1/chat/completions.
ChatOutcomes ==
    {[kind |-> "fetch_throws"],        \* fetch rejects
     [kind |-> "not_ok"],              \* response.ok is false
     [kind |-> "body_not_json"],       \* response.json() rejects
     [kind |-> "no_choices"],          \* data.choices is undefined
     [kind |-> "content", content |-> Undefined],
     [kind |-> "content", content |-> JChars(<<>>)],
     [kind |-> "content", content |-> JNum(700)],
     [kind |-> "content", content |-> JChars(<<" ", "K", "e", "r", "n", "i", "n", "g", " ", "i", "s", " ", "l",
      "o", "v", "e", ".", " ", "\n">>)]}

\* The catch block's response.
ChatError ==
    [op |-> "chat", status |-> 500, req |-> NoRequest,
     error |-> "Failed to generate response",
     reply |-> JStr("I'm having trouble thinking right now... try again in a moment!")]

\* const reply = data.choices[0]?.message?.content || "Meow? (cat)";
\* res.json({ reply: reply.trim(), source: "ai" }), or the catch block.
ChatReply(outcome) ==
    IF outcome.kind # "content" THEN ChatError
    ELSE IF ~Truthy(outcome.content)
    THEN [op |-> "chat", status |-> 200, req |-> NoRequest,
          reply |-> JStr("Meow? (cat)"), source |-> "ai"]
    ELSE IF outcome.content.t # "chars" THEN ChatError
    ELSE [op |-> "chat", status |-> 200, req |-> NoRequest,
          reply |-> JChars(Trim(outcome.content.s)), source |-> "ai"]

\* The request arrives: validation, the knowledge base, the key, and the
\* request to the API.
ChatArrives(body) ==
    /\ chat.pc = "idle"
    /\ LET message == Field(JObj(body), "message")
       IN  IF ChatInvalid(message)
           THEN /\ chatRes' = [op |-> "chat", status |-> 400, req |-> body,
                               error |-> "Message is required"]
                /\ UNCHANGED chat
           ELSE IF Truthy(findKnowledgeBaseAnswer(message.s))
           THEN /\ chatRes' = [op |-> "chat", status |-> 200, req |-> body,
                               reply |-> findKnowledgeBaseAnswer(message.s),
                               source |-> "knowledge_base"]
                /\ UNCHANGED chat
           ELSE IF ~hasKey
           THEN /\ chatRes' = [op |-> "chat", status |-> 200, req |-> body,
                               reply |-> JStr("I'm thinking about this... let me get back to you!"),
                               source |-> "fallback"]
                /\ UNCHANGED chat
           ELSE /\ chat' = [pc |-> "fetch", body |-> body,
                            messages |-> ChatMessagesSent(body)]
                /\ UNCHANGED chatRes
    /\ UNCHANGED <<fb, fbRes, rq, typing_status, typingLog>>
    /\ UNCHANGED <<speechVars, msgVars>>

\* The call to the API ends with one of its outcomes.
ChatFetched ==
    /\ chat.pc = "fetch"
    /\ \E outcome \in ChatOutcomes :
          chatRes' = AnswerTo(ChatReply(outcome), chat.body)
    /\ chat' = Idle
    /\ UNCHANGED <<fb, fbRes, rq, typing_status, typingLog>>
    /\ UNCHANGED <<speechVars, msgVars>>

\* The messages and histories of the requests.
ChatTexts ==
    {<<"H", "e", "l", "l", "o">>,
     <<"w", "h", "o", " ", "m", "a", "d", "e", " ", "y", "o", "u">>,
     <<"m", "y", " ", "c", "r", "e", "a", "t", "o", "r", " ", "a", "c",
      "h", "m", "a", "d">>,
     <<"t", "y", "p", "o", "g", "r", "a", "p", "h", "y", " ", "h", "e",
      "l", "p">>,
     <<"W", "h", "a", "t", " ", "i", "s", " ", "g", "o", "o", "d", " ",
      "d", "e", "s", "i", "g", "n", "?">>,
     <<" ", "P", "U", "R", "R", " ">>,
     <<"a", " ", "r", "e", "d", " ", "c", "a", "r", "p", "e", "t">>,
     <<"k", "e", "r", "n", "i", "n", "g", "?">>,
     <<"w", "h", "y", "\n">>}

HistoryItem(n) == JObj([role |-> JStr("user"), content |-> JNum(n)])

ChatHistories ==
    {JArr(<<>>), JStr("none"),
     JArr([n \in 1..(HistoryKept + 2) |-> HistoryItem(n)])}

ChatBodies ==
    {[other |-> JNum(100)],
     [message |-> JChars(<<>>)],
     [message |-> JNum(700)],
     [message |-> JNull, conversationHistory |-> JArr(<<>>)]}
    \cup {[message |-> JChars(t)] : t \in ChatTexts}
    \cup {[message |-> JChars(t), conversationHistory |-> h] :
            t \in ChatTexts, h \in ChatHistories}

PostChat == \E body \in ChatBodies : ChatArrives(body)

ChatNext ==
    \/ PostChat
    \/ ChatFetched

ChatSpec == Init /\ [][ChatNext]_vars

(***************************************************************************)
(* POST /api/typing/set and GET /api/typing/:conversation_id.  In this     *)
(* part dbNow counts seconds.  The id column of typing_status, which no     *)
(* query reads, is left out.                                               *)
(***************************************************************************)
TypingTimeout == 10     \* INTERVAL '10 seconds'

\* !user_cat_name || !conversation_id || is_typing === undefined
TypingInvalid(body) ==
    \/ ~Truthy(Field(JObj(body), "user_cat_name"))
    \/ ~Truthy(Field(JObj(body), "conversation_id"))
    \/ Field(JObj(body), "is_typing") = Undefined

\* conversation_id INTEGER NOT NULL REFERENCES conversations(id)
TypingInsertFails(convId) == \A c \in conversations : c.id # convId

TypingRow(convId, userId, isTyping) ==
    [conversation_id |-> convId, user_id |-> userId, is_typing |-> isTyping,
     last_updated |-> dbNow]

\* Mutant: a plain INSERT, and no UNIQUE(conversation_id, user_id).
InsertTyping(convId, userId, isTyping) ==
    typing_status \cup {TypingRow(convId, userId, isTyping)}

\* INSERT INTO typing_status ... ON CONFLICT (conversation_id, user_id)
\* DO UPDATE SET is_typing = $3, last_updated = CURRENT_TIMESTAMP
UpsertTyping(convId, userId, isTyping) ==
    {t \in typing_status :
        ~(t.conversation_id = convId /\ t.user_id = userId)}
      \cup {TypingRow(convId, userId, isTyping)}

\* The handler up to its upsert: validation and the user's id.
TypingSetArrives(s, body) ==
    /\ rq[s].pc = "idle"
    /\ IF TypingInvalid(body)
       THEN /\ msgRes' = [op |-> "typing_set", status |-> 400]
            /\ UNCHANGED rq
       ELSE IF SelectUser(body.user_cat_name.s) = {}
       THEN /\ msgRes' = [op |-> "typing_set", status |-> 404]
            /\ UNCHANGED rq
       ELSE /\ Len(typingLog)
                 + Cardinality({q \in Slots : rq[q].pc = "upsert"})
               < MaxTypingSets
            /\ \E u \in SelectUser(body.user_cat_name.s) :
                  rq' = [rq EXCEPT ![s] = [pc |-> "upsert", body |-> body,
                                           userId |-> u.id]]
            /\ UNCHANGED msgRes
    /\ UNCHANGED <<users, conversations, messages, serial, dbNow>>
    /\ UNCHANGED <<typing_status, typingLog, fb, fbRes, chat, chatRes>>
    /\ UNCHANGED speechVars

\* The upsert, and the response.
TypingSetUpsert(s) ==
    /\ rq[s].pc = "upsert"
    /\ LET convId == rq[s].body.conversation_id.n
           isTyping == rq[s].body.is_typing
       IN  IF TypingInsertFails(convId)
           THEN /\ msgRes' = [op |-> "typing_set", status |-> 500]
                /\ UNCHANGED <<typing_status, typingLog>>
           ELSE /\ typing_status' = UpsertTyping(convId, rq[s].userId, isTyping)
                /\ typingLog' = Append(typingLog,
                                       [conversation_id |-> convId,
                                        user_id |-> rq[s].userId,
                                        is_typing |-> isTyping,
                                        at |-> dbNow])
                /\ msgRes' = [op |-> "typing_set", status |-> 200,
                              success |-> TRUE, is_typing |-> isTyping]
    /\ rq' = [rq EXCEPT ![s] = Idle]
    /\ UNCHANGED <<users, conversations, messages, serial, dbNow>>
    /\ UNCHANGED <<fb, fbRes, chat, chatRes>>
    /\ UNCHANGED speechVars

\* WHERE t.conversation_id = $1 AND t.is_typing = TRUE
\*   AND (CURRENT_TIMESTAMP - t.last_updated) < INTERVAL '10 seconds'
TypingNow(convId) ==
    {t \in typing_status :
        /\ t.conversation_id = convId
        /\ t.is_typing = JBool(TRUE)
        /\ dbNow - t.last_updated < TypingTimeout}

\* ORDER BY t.last_updated DESC (rows of equal last_updated in some order)
RECURSIVE OrderByLastUpdated(_)
OrderByLastUpdated(rows) ==
    IF rows = {} THEN <<>>
    ELSE LET first == CHOOSE t \in rows :
                          \A o \in rows : t.last_updated >= o.last_updated
         IN  <<first>> \o OrderByLastUpdated(rows \ {first})

\* SELECT t.user_id, u.cat_name, t.is_typing, t.last_updated
\* FROM typing_status t JOIN users u ON t.user_id = u.id
TypingUsers(convId) ==
    LET rows == OrderByLastUpdated(TypingNow(convId))
    IN  [i \in 1..Len(rows) |->
            [user_id |-> rows[i].user_id, cat_name |-> UserName(rows[i].user_id),
             is_typing |-> rows[i].is_typing,
             last_updated |-> rows[i].last_updated]]

GetTyping(convId) ==
    /\ msgRes' = [op |-> "typing", status |-> 200, conversation_id |-> convId,
                  typing_users |-> TypingUsers(convId)]
    /\ UNCHANGED <<users, conversations, messages, serial, dbNow>>
    /\ UNCHANGED <<typing_status, typingLog, rq, fb, fbRes, chat, chatRes>>
    /\ UNCHANGED speechVars

\* Time passes.
TypingTick ==
    /\ dbNow + TickSeconds < MaxSeconds
    /\ dbNow' = dbNow + TickSeconds
    /\ UNCHANGED <<users, conversations, messages, serial, msgRes>>
    /\ UNCHANGED <<typing_status, typingLog, rq, fb, fbRes, chat, chatRes>>
    /\ UNCHANGED speechVars

\* The requests: two users of one conversation, an unknown user, a
\* conversation that does not exist, incomplete bodies.
TypingBodies ==
    {[user_cat_name |-> JChars(n), conversation_id |-> JNum(1),
      is_typing |-> JBool(v)] : n \in {<<"a">>, <<"b">>}, v \in BOOLEAN}
    \cup {[user_cat_name |-> JChars(<<"a">>), conversation_id |-> JNum(1),
           is_typing |-> JNull],
          [user_cat_name |-> JChars(<<"a">>), conversation_id |-> JNum(7),
           is_typing |-> JBool(TRUE)],
          [user_cat_name |-> JChars(<<"c">>), conversation_id |-> JNum(1),
           is_typing |-> JBool(TRUE)],
          [user_cat_name |-> JChars(<<"a">>), conversation_id |-> JNum(0),
           is_typing |-> JBool(TRUE)],
          [user_cat_name |-> JChars(<<"a">>), conversation_id |-> JNum(1)],
          [conversation_id |-> JNum(1), is_typing |-> JBool(FALSE)]}

TypingConversations == {1, 7}

\* The tables after a and b registered and a sent b a message.
TypingInit ==
    /\ users = {[id |-> 1, cat_name |-> <<"a">>], [id |-> 2, cat_name |-> <<"b">>]}
    /\ conversations = {[id |-> 1, user1_id |-> 1, user2_id |-> 2,
                         created_at |-> 1]}
    /\ messages = {[id |-> 1, conversation_id |-> 1, sender_id |-> 1,
                    content |-> "hi", is_read |-> FALSE, created_at |-> 2]}
    /\ serial = [users |-> 3, conversations |-> 2, messages |-> 2]
    /\ dbNow = 2
    /\ msgRes = NoResponse

PostTypingSet == \E s \in Slots, body \in TypingBodies : TypingSetArrives(s, body)

TypingUpserts == \E s \in Slots : TypingSetUpsert(s)

GetTypingStatus == \E convId \in TypingConversations : GetTyping(convId)

TypingNext ==
    \/ PostTypingSet
    \/ TypingUpserts
    \/ GetTypingStatus
    \/ TypingTick

TypingSpecInit == SpeechInit /\ hasKey = TRUE /\ TypingInit /\ OtherInit

TypingSpec == TypingSpecInit /\ [][TypingNext]_vars

(***************************************************************************)
(* POST /api/messages/register and POST /api/messages/send under requests  *)
(* that overlap: a handler gives way at each await, so every query is a    *)
(* step of its own and the steps of two requests interleave.  The request  *)
(* in slot s keeps its position, its local variables and, when it is done, *)
(* its response.                                                           *)
(***************************************************************************)
Done(s, op, body, response) ==
    rq' = [rq EXCEPT ![s] = [pc |-> "done", op |-> op, body |-> body,
                             res |-> response]]

\* The tables a step leaves alone are named by each step; nothing here
\* touches the speech cache, the typing rows or the feedback and chat state.
RaceFrame ==
    /\ UNCHANGED <<msgRes, typing_status, typingLog, fb, fbRes, chat, chatRes>>
    /\ UNCHANGED speechVars

\* const { cat_name } = req.body; the validation.  unregistered is history:
\* whether the name had a row when the request arrived.
RegisterArrives(s, body) ==
    /\ rq[s].pc = "idle"
    /\ IF RegisterInvalid(body)
       THEN Done(s, "register", body, [status |-> 400])
       ELSE rq' = [rq EXCEPT ![s] =
                      [pc |-> "select", op |-> "register", body |-> body,
                       unregistered |-> SelectUser(body.cat_name) = {}]]
    /\ UNCHANGED <<users, conversations, messages, serial, dbNow>>
    /\ RaceFrame

\* await pool.query("SELECT id FROM users WHERE cat_name = $1")
RegisterSelect(s) ==
    /\ rq[s].pc = "select"
    /\ rq[s].op = "register"
    /\ IF SelectUser(rq[s].body.cat_name) # {}
       THEN \E row \in SelectUser(rq[s].body.cat_name) :
               rq' = [rq EXCEPT ![s] =
                         [@ EXCEPT !.pc = "done"] @@
                         [res |-> [status |-> 200, id |-> row.id,
                                   cat_name |-> rq[s].body.cat_name,
                                   created |-> FALSE]]]
       ELSE rq' = [rq EXCEPT ![s].pc = "insert"]
    /\ UNCHANGED <<users, conversations, messages, serial, dbNow>>
    /\ RaceFrame

\* await pool.query("INSERT INTO users (cat_name) VALUES ($1) RETURNING ...")
\* A row that UNIQUE rejects has taken its id from the sequence already.
RegisterInsert(s) ==
    /\ rq[s].pc = "insert"
    /\ rq[s].op = "register"
    /\ IF InsertUserFails(rq[s].body.cat_name)
       THEN /\ rq' = [rq EXCEPT ![s] =
                         [@ EXCEPT !.pc = "done"] @@ [res |-> [status |-> 500]]]
            /\ UNCHANGED users
       ELSE /\ users' = users \cup {NewUser(rq[s].body.cat_name)}
            /\ rq' = [rq EXCEPT ![s] =
                         [@ EXCEPT !.pc = "done"] @@
                         [res |-> [status |-> 200,
                                   id |-> NewUser(rq[s].body.cat_name).id,
                                   cat_name |-> NewUser(rq[s].body.cat_name).cat_name,
                                   created |-> TRUE]]]
    /\ serial' = [serial EXCEPT !.users = @ + 1]
    /\ UNCHANGED <<conversations, messages, dbNow>>
    /\ RaceFrame

\* The sends in flight that have yet to insert their message.
SendsInFlight ==
    Cardinality({q \in Slots : rq[q].pc # "idle" /\ rq[q].pc # "done"
                                 /\ rq[q].op = "send"})

\* const { sender_cat_name, recipient_cat_name, content } = req.body; the
\* validation.
SendArrives(s, body) ==
    /\ rq[s].pc = "idle"
    /\ IF SendInvalid(body)
       THEN Done(s, "send", body, [status |-> 400])
       ELSE /\ Cardinality(messages) + SendsInFlight < MaxMessages
            /\ rq' = [rq EXCEPT ![s] =
                         [pc |-> "sender", op |-> "send", body |-> body]]
    /\ UNCHANGED <<users, conversations, messages, serial, dbNow>>
    /\ RaceFrame

\* const senderResult = await pool.query("SELECT id FROM users ...")
SendSelectSender(s) ==
    /\ rq[s].pc = "sender"
    /\ rq' = [rq EXCEPT ![s] =
                 [@ EXCEPT !.pc = "recipient"] @@
                 [senderResult |-> SelectUser(rq[s].body.sender_cat_name)]]
    /\ UNCHANGED <<users, conversations, messages, serial, dbNow>>
    /\ RaceFrame

\* const recipientResult = await pool.query("SELECT id FROM users ...");
\* 404 when either result is empty.
SendSelectRecipient(s) ==
    /\ rq[s].pc = "recipient"
    /\ LET recipientResult == SelectUser(rq[s].body.recipient_cat_name)
       IN  IF rq[s].senderResult = {} \/ recipientResult = {}
           THEN Done(s, "send", rq[s].body, [status |-> 404])
           ELSE \E sender \in rq[s].senderResult, recipient \in recipientResult :
                   rq' = [rq EXCEPT ![s] =
                             [pc |-> "conversation", op |-> "send",
                              body |-> rq[s].body, senderId |-> sender.id,
                              recipientId |-> recipient.id]]
    /\ UNCHANGED <<users, conversations, messages, serial, dbNow>>
    /\ RaceFrame

\* let convResult = await pool.query("SELECT id FROM conversations ...")
SendSelectConversation(s) ==
    /\ rq[s].pc = "conversation"
    /\ LET convResult == SelectConversation(rq[s].senderId, rq[s].recipientId)
       IN  IF convResult = {}
           THEN rq' = [rq EXCEPT ![s].pc = "create"]
           ELSE \E conv \in convResult :
                   rq' = [rq EXCEPT ![s] =
                             [@ EXCEPT !.pc = "message"] @@
                             [conversationId |-> conv.id, created |-> FALSE]]
    /\ UNCHANGED <<users, conversations, messages, serial, dbNow>>
    /\ RaceFrame

\* convResult = await pool.query("INSERT INTO conversations ...")
SendInsertConversation(s) ==
    /\ rq[s].pc = "create"
    /\ conversations' = conversations
          \cup {NewConversation(rq[s].senderId, rq[s].recipientId)}
    /\ serial' = [serial EXCEPT !.conversations = @ + 1]
    /\ dbNow' = dbNow + 1
    /\ rq' = [rq EXCEPT ![s] =
                 [@ EXCEPT !.pc = "message"] @@
                 [conversationId |->
                     NewConversation(rq[s].senderId, rq[s].recipientId).id,
                  created |-> TRUE]]
    /\ UNCHANGED <<users, messages>>
    /\ RaceFrame

\* content TEXT NOT NULL: a text value cannot hold the character U+0000,
\* and the statement that binds one is rejected.
ContentWithNul == "a\\u0000b"

InsertMessageFails(content) == content = ContentWithNul

\* const msgResult = await pool.query("INSERT INTO messages ..."); res.json,
\* or the catch block's 500.  created is history: whether this request
\* inserted its conversation.
SendInsertMessage(s) ==
    /\ rq[s].pc = "message"
    /\ IF InsertMessageFails(rq[s].body.content)
       THEN /\ rq' = [rq EXCEPT ![s] =
                         [pc |-> "done", op |-> "send", body |-> rq[s].body,
                          res |-> [status |-> 500],
                          created |-> rq[s].created]]
            /\ UNCHANGED <<messages, serial, dbNow>>
       ELSE /\ messages' = messages
                  \cup {NewMessage(rq[s].conversationId, rq[s].senderId,
                                   rq[s].body.content, dbNow + 1)}
            /\ serial' = [serial EXCEPT !.messages = @ + 1]
            /\ dbNow' = dbNow + 1
            /\ rq' = [rq EXCEPT ![s] =
                         [pc |-> "done", op |-> "send", body |-> rq[s].body,
                          res |-> [status |-> 200, id |-> serial.messages,
                                   created_at |-> dbNow + 1],
                          created |-> rq[s].created]]
    /\ UNCHANGED <<users, conversations>>
    /\ RaceFrame

\* The client has the response; the slot is free for the next request.
RaceReceive(s) ==
    /\ rq[s].pc = "done"
    /\ rq' = [rq EXCEPT ![s] = Idle]
    /\ UNCHANGED <<users, conversations, messages, serial, dbNow>>
    /\ RaceFrame

\* The requests: two cats that register and write to each other, a cat
\* that never registers, incomplete bodies.
RaceNames == {<<"a">>, <<"b">>}

RaceRegisterBodies == {<<>>} \cup {[cat_name |-> n] : n \in RaceNames}

RaceSendBodies ==
    {[sender_cat_name |-> <<"a">>, recipient_cat_name |-> <<"b">>,
      content |-> "hi"],
     [sender_cat_name |-> <<"b">>, recipient_cat_name |-> <<"a">>,
      content |-> "hi"],
     [sender_cat_name |-> <<"a">>, recipient_cat_name |-> <<"c">>,
      content |-> "hi"],
     [sender_cat_name |-> <<"a">>, recipient_cat_name |-> <<"b">>,
      content |-> ContentWithNul],
     [sender_cat_name |-> <<"a">>, recipient_cat_name |-> <<"b">>]}

RaceRegister ==
    \E s \in Slots :
        \/ \E body \in RaceRegisterBodies : RegisterArrives(s, body)
        \/ RegisterSelect(s)
        \/ RegisterInsert(s)

RaceSend ==
    \E s \in Slots :
        \/ \E body \in RaceSendBodies : SendArrives(s, body)
        \/ SendSelectSender(s)
        \/ SendSelectRecipient(s)
        \/ SendSelectConversation(s)
        \/ SendInsertConversation(s)
        \/ SendInsertMessage(s)

RaceNext ==
    \/ RaceRegister
    \/ RaceSend
    \/ \E s \in Slots : RaceReceive(s)

RaceSpec == MsgSpecInit /\ [][RaceNext]_vars

(***************************************************************************)
(* The daily-speech endpoint under requests that overlap: a request may    *)
(* arrive while another waits for the LLM.                                 *)
(***************************************************************************)
SpeechRaceNext ==
    \/ Tick
    \/ \E r \in SpeechReqs : SpeechRequest(r)
    \/ \E r \in SpeechReqs : SpeechComplete(r)

SpeechRaceSpec == Init /\ [][SpeechRaceNext]_vars

(***************************************************************************)
(* Claims about GET /api/speech/daily, checked under SpeechSpec.           *)
(***************************************************************************)
\* The condition of a cache hit, as the claims state it.
SlotHoldsToday == cachedSpeeches # JNull /\ cachedDate = Today(clock)

\* C1: a request that finds speeches in the slot under its own UTC date is
\* answered with exactly those speeches and cached: true, without a call of
\* generateDailySpeeches, and leaves cachedSpeeches and cachedDate unchanged.
C1_CacheHit ==
    [][\A r \in SpeechReqs :
         (SpeechRequest(r) /\ SlotHoldsToday)
         => /\ speechRes'.status = 200
            /\ speechRes'.req = r
            /\ speechRes'.date = Today(clock)
            /\ speechRes'.categories = cachedSpeeches
            /\ speechRes'.cached = TRUE
            /\ ~speechRes'.generated
            /\ ~speechRes'.fetched
            /\ sp'[r].pc = "idle"
            /\ cachedSpeeches' = cachedSpeeches
            /\ cachedDate' = cachedDate]_vars

C1_Witness ==
    /\ speechRes.status = 200
    /\ speechRes.cached
    /\ speechRes.categories = cachedSpeeches
    /\ speechRes.date = cachedDate

\* What generateDailySpeeches can return.
Generated ==
    {FALLBACK_SPEECHES} \cup
    {validateAndCombineSpeeches(v).value :
        v \in {w \in ParsedSamples : ~validateAndCombineSpeeches(w).threw}}

\* C2: a request that finds the slot empty or filled under another date
\* calls generateDailySpeeches; its response carries the generated speeches
\* with cached: false and the slot then holds them under the date computed
\* when the request arrived; and no response for date D carries speeches
\* the slot held under another date.
C2_Rollover ==
    /\ [][\A r \in SpeechReqs :
            (SpeechRequest(r) /\ ~SlotHoldsToday)
            => IF hasKey
               THEN /\ sp'[r] = [pc |-> "fetch", today |-> Today(clock)]
                    /\ UNCHANGED <<cachedSpeeches, cachedDate, speechRes>>
               ELSE /\ speechRes'.generated
                    /\ speechRes'.cached = FALSE
                    /\ speechRes'.date = Today(clock)
                    /\ speechRes'.categories \in Generated
                    /\ cachedSpeeches' = speechRes'.categories
                    /\ cachedDate' = Today(clock)]_vars
    /\ [][\A r \in SpeechReqs :
            SpeechComplete(r)
            => /\ speechRes'.req = r
               /\ speechRes'.status = 200
               /\ speechRes'.generated
               /\ speechRes'.cached = FALSE
               /\ speechRes'.date = sp[r].today
               /\ speechRes'.categories \in Generated
               /\ cachedSpeeches' = speechRes'.categories
               /\ cachedDate' = sp[r].today]_vars
    /\ [](speechRes.status = 200 => speechRes.slotDate = speechRes.date)

\* The day rolled over while the LLM was being called: the slot is filled
\* under the request's date, not under the date of its completion.
C2_Witness ==
    /\ speechRes.status = 200
    /\ ~speechRes.cached
    /\ speechRes.fetched
    /\ speechRes.date >= 2
    /\ cachedDate = speechRes.date
    /\ Today(clock) > speechRes.date

\* The outcomes the claim lists as failures of the generation.
FailedOutcome(o) ==
    \/ o.kind \in {"no_key", "fetch_throws", "not_ok", "body_not_json",
                   "no_choices", "no_content"}
    \/ /\ o.kind = "content"
       /\ \/ o.content.empty
          \/ ~o.content.valid
          \/ validateAndCombineSpeeches(o.content.value).threw

\* C3: generateDailySpeeches never rejects and returns FALLBACK_SPEECHES on
\* every failure, so every response of GET /api/speech/daily is a 200 whose
\* categories hold all six categories.
C3_NeverRejects ==
    speechRes.status # 0
    => /\ speechRes.status = 200
       /\ DOMAIN speechRes.categories = SPEECH_CATEGORIES
       /\ Cardinality(DOMAIN speechRes.categories) = 6
       /\ \A c \in SPEECH_CATEGORIES : Len(speechRes.categories[c]) >= 1
       /\ FailedOutcome(speechRes.outcome)
          => speechRes.categories = FALLBACK_SPEECHES

\* Validation threw on a parsed answer and the fallback was returned.
C3_Witness ==
    /\ speechRes.status = 200
    /\ speechRes.outcome.kind = "content"
    /\ speechRes.outcome.content.valid
    /\ validateAndCombineSpeeches(speechRes.outcome.content.value).threw
    /\ speechRes.categories = FALLBACK_SPEECHES

Registered(name) == \E u \in users : u.cat_name = name
IdOf(name) == (CHOOSE u \in users : u.cat_name = name).id
RegisteredNames == {n \in CatNames : Registered(n)}

\* The conversations between two users, in either direction.
Between(a, b) ==
    {c \in conversations : {c.user1_id, c.user2_id} = {a, b}}

MessageIds == {m.id : m \in messages}
NewMessages == {m \in messages' : m.id \notin MessageIds}

\* What a GET /api/messages/user/other with no query string can answer:
\* the conversation_id and the ids of the messages, in order.
PairView(user, other) ==
    IF SelectConversation(IdOf(user), IdOf(other)) = {}
    THEN {<<NoConversationResponse(IdOf(other), other).conversation_id, <<>>>>}
    ELSE {LET R == ConversationResponse(conv.id, IdOf(user), IdOf(other), other,
                                        DefaultOffset, DefaultLimit)
          IN  <<R.conversation_id,
                [i \in 1..Len(R.messages) |->
                    <<R.messages[i].id, R.messages[i].sender_id,
                      R.messages[i].content>>]>> :
          conv \in SelectConversation(IdOf(user), IdOf(other))}

\* C5: sequential sends between two registered users, in either direction,
\* share one conversation: the first send creates one row, every later one
\* inserts its message into that row's conversation and creates none; and
\* GET /api/messages/A/B and GET /api/messages/B/A report the same
\* conversation_id and the same messages.
C5_SymmetricConversation ==
    /\ [][\A body \in SendBodies :
            (msgRes'.op = "send" /\ msgRes'.status = 200 /\ Send(body))
            => LET s == IdOf(body.sender_cat_name)
                   r == IdOf(body.recipient_cat_name)
               IN  /\ Cardinality(NewMessages) = 1
                   /\ messages \subseteq messages'
                   /\ \A m \in NewMessages :
                         /\ m.sender_id = s
                         /\ m.content = body.content
                         /\ m.id = msgRes'.id
                         /\ \E c \in conversations' :
                               /\ c.id = m.conversation_id
                               /\ {c.user1_id, c.user2_id} = {s, r}
                   /\ IF Between(s, r) = {}
                      THEN /\ conversations \subseteq conversations'
                           /\ Cardinality(conversations') =
                                 Cardinality(conversations) + 1
                      ELSE conversations' = conversations]_vars
    /\ [](\A c, d \in conversations :
             {c.user1_id, c.user2_id} = {d.user1_id, d.user2_id} => c = d)
    /\ [](NoRequestInFlight
          => \A a, b \in RegisteredNames :
                /\ PairView(a, b) = PairView(b, a)
                /\ Cardinality(PairView(a, b)) = 1)

\* Two users have written to each other, and there is one conversation.
C5_Witness ==
    /\ msgRes.op = "send"
    /\ msgRes.status = 200
    /\ Cardinality(conversations) = 1
    /\ \E c \in conversations, m, n \in messages :
          /\ c.user1_id # c.user2_id
          /\ m.conversation_id = c.id /\ m.sender_id = c.user1_id
          /\ n.conversation_id = c.id /\ n.sender_id = c.user2_id

\* A cat_name that is missing, empty or white space only.
Blank(body) ==
    \/ "cat_name" \notin DOMAIN body
    \/ \A i \in 1..Len(body.cat_name) : body.cat_name[i] \in WhiteSpace

UniqueCatNames == \A u, v \in users : u.cat_name = v.cat_name => u = v

\* What the claim says of a register request whose name is not blank.
RegisterOrGet(body) ==
    IF Registered(body.cat_name)
    THEN /\ msgRes'.status = 200
         /\ msgRes'.created = FALSE
         /\ msgRes'.id = IdOf(body.cat_name)
         /\ users' = users
    ELSE /\ msgRes'.status = 200
         /\ msgRes'.created = TRUE
         /\ Cardinality(users') = Cardinality(users) + 1
         /\ users \subseteq users'
         /\ [id |-> msgRes'.id, cat_name |-> body.cat_name] \in users'

C7_ReadMarking ==
    /\ [][(/\ msgRes'.op = "conversation"
           /\ msgRes'.status = 200
           /\ msgRes'.conversation_id # NullId)
          => LET conv == msgRes'.conversation_id
                 o == msgRes'.otherUserInfo.id
                 u == IdOf(msgRes'.req.user)
                 sentByOther == {m \in messages :
                                    m.conversation_id = conv /\ m.sender_id = o}
             IN  /\ IdOf(msgRes'.otherUserInfo.cat_name) = o
                 /\ \E c \in Between(u, o) : c.id = conv
                 /\ messages' = (messages \ sentByOther) \cup
                       {[m EXCEPT !.is_read = TRUE] : m \in sentByOther}]_vars
    /\ [][\A m \in NewMessages : m.is_read = FALSE]_vars
    /\ [][\A m \in messages :
            m.is_read => \E n \in messages' : n.id = m.id /\ n.is_read]_vars
    /\ [][(\E m \in messages, n \in messages' :
              n.id = m.id /\ n.is_read # m.is_read)
          => msgRes'.op = "conversation" /\ msgRes'.status = 200]_vars

\* A GET marked what the other user sent and left another message unread.
C7_Witness ==
    /\ msgRes.op = "conversation"
    /\ msgRes.status = 200
    /\ msgRes.conversation_id # NullId
    /\ \E m, n \in messages :
          /\ m.conversation_id = msgRes.conversation_id
          /\ m.sender_id = msgRes.otherUserInfo.id
          /\ m.is_read
          /\ ~n.is_read

RECURSIVE SumUnread(_)
SumUnread(rows) ==
    IF rows = <<>> THEN 0 ELSE Head(rows).unread_count + SumUnread(Tail(rows))

\* The unread messages of a user: in a conversation of the user, sent by
\* someone else, not read.
UnreadOf(userId) ==
    {m \in messages :
        /\ \E c \in conversations :
              /\ c.id = m.conversation_id
              /\ userId \in {c.user1_id, c.user2_id}
        /\ m.sender_id # userId
        /\ ~m.is_read}

\* C8: for every registered user, unread_count of GET /api/messages/unread
\* equals the sum of the unread_count values of GET /api/messages/list, and
\* both equal the number of the user's unread messages.
C8_UnreadCountsAgree ==
    /\ NoRequestInFlight
       => \A name \in RegisteredNames :
             /\ UnreadResponse(name).status = 200
             /\ ListResponse(name).status = 200
             /\ UnreadResponse(name).unread_count
                   = SumUnread(ListResponse(name).conversations)
             /\ UnreadResponse(name).unread_count
                   = Cardinality(UnreadOf(IdOf(name)))
    /\ msgRes.op = "unread" /\ msgRes.status = 200
       => \E name \in RegisteredNames :
             msgRes.unread_count = Cardinality(UnreadOf(IdOf(name)))
    /\ msgRes.op = "list" /\ msgRes.status = 200
       => \E name \in RegisteredNames :
             SumUnread(msgRes.conversations) = Cardinality(UnreadOf(IdOf(name)))

\* A user was told of two unread messages, one in each of two conversations.
C8_Witness ==
    /\ msgRes.op = "unread"
    /\ msgRes.status = 200
    /\ msgRes.unread_count = 2
    /\ \E name \in RegisteredNames :
          /\ UnreadResponse(name) = msgRes
          /\ Len(ListResponse(name).conversations) = 2
          /\ \A i \in 1..2 : ListResponse(name).conversations[i].unread_count = 1

\* The decimal numbers among the query texts, as the claim reads them.
IsDecimal(text) == text \in {<<"0">>, <<"1">>, <<"2">>}
Decimal(text) ==
    CASE text = <<"0">> -> 0 [] text = <<"1">> -> 1 [] text = <<"2">> -> 2

\* The offset and the limit of a query (defaults 0 and 50), for the queries
\* the claim covers: offset >= 0 and limit >= 1.
Covered(query) ==
    /\ "offset" \in DOMAIN query => IsDecimal(query.offset)
    /\ "limit" \in DOMAIN query =>
          IsDecimal(query.limit) /\ Decimal(query.limit) >= 1
OffsetOf(query) ==
    IF "offset" \in DOMAIN query THEN Decimal(query.offset) ELSE 0
LimitOf(query) ==
    IF "limit" \in DOMAIN query THEN Decimal(query.limit) ELSE 50

\* The position of a message of a conversation in creation order, from 0.
Position(m) ==
    Cardinality({n \in messages :
                    n.conversation_id = m.conversation_id /\ n.id < m.id})

\* The page the claim describes.
PageAsClaimed(R, conv, offset, limit) ==
    LET msgs == {m \in messages : m.conversation_id = conv}
    IN  /\ R.conversation_id = conv
        /\ Len(R.messages) =
              Cardinality({m \in msgs : /\ Position(m) >= offset
                                        /\ Position(m) <= offset + limit - 1})
        /\ \A i \in 1..Len(R.messages) :
              \E m \in msgs : /\ m.id = R.messages[i].id
                              /\ m.content = R.messages[i].content
                              /\ m.sender_id = R.messages[i].sender_id
                              /\ Position(m) = offset + i - 1
        /\ R.total_count = Cardinality(msgs)
        /\ R.has_more <=> \E m \in msgs : Position(m) >= offset + limit

\* C9: GET /api/messages/U/O with offset >= 0 and limit >= 1 (defaults 0
\* and 50) returns the messages of the conversation at the positions
\* offset .. offset+limit-1 of the creation order, total_count the number
\* of its messages and has_more exactly when a message exists at a position
\* >= offset+limit; without a conversation it returns conversation_id null,
\* no messages, total_count 0 and modifies nothing.
C9_Pagination ==
    [][msgRes'.op = "conversation"
       => IF msgRes'.status = 200
          THEN LET u == IdOf(msgRes'.req.user)
                   o == IdOf(msgRes'.otherUserInfo.cat_name)
               IN  IF Between(u, o) = {}
                   THEN /\ msgRes'.conversation_id = NullId
                        /\ msgRes'.messages = <<>>
                        /\ msgRes'.total_count = 0
                        /\ UNCHANGED <<users, conversations, messages>>
                   ELSE /\ msgRes'.conversation_id # NullId
                        /\ Covered(msgRes'.req.query)
                           => \E c \in Between(u, o) :
                                 PageAsClaimed(msgRes', c.id,
                                               OffsetOf(msgRes'.req.query),
                                               LimitOf(msgRes'.req.query))
          ELSE \A user \in RegisteredNames, other \in RegisteredNames :
                  \A query \in Queries :
                     GetConversation(user, other, query)
                     => /\ Between(IdOf(user), IdOf(other)) # {}
                        /\ ~Covered(query)]_vars

\* A first page of one message, with more to come.
C9_Witness ==
    /\ msgRes.op = "conversation"
    /\ msgRes.status = 200
    /\ msgRes.conversation_id # NullId
    /\ Len(msgRes.messages) = 1
    /\ msgRes.total_count = 2
    /\ msgRes.has_more

\* A body of POST /api/messages/send that lacks a field or has it empty.
Incomplete(body) ==
    \/ "sender_cat_name" \notin DOMAIN body
    \/ "recipient_cat_name" \notin DOMAIN body
    \/ "content" \notin DOMAIN body
    \/ Len(body.sender_cat_name) = 0
    \/ Len(body.recipient_cat_name) = 0
    \/ Len(body.content) = 0

\* C10: POST /api/messages/send answers 400 when a field is missing or
\* empty and 404 when a name is not registered, and in both cases leaves
\* the tables users, conversations and messages unchanged.
C10_SendRejects ==
    [][msgRes'.op = "send"
       => \A body \in SendBodies :
             Send(body)
             => /\ Incomplete(body)
                   => /\ msgRes'.status = 400
                      /\ UNCHANGED <<users, conversations, messages>>
                /\ (/\ ~Incomplete(body)
                    /\ \/ ~Registered(body.sender_cat_name)
                       \/ ~Registered(body.recipient_cat_name))
                   => /\ msgRes'.status = 404
                      /\ UNCHANGED <<users, conversations, messages>>
                /\ msgRes'.status \in {400, 404}
                   => UNCHANGED <<users, conversations, messages>>]_vars

\* A send to a name that is not registered, with messages in the tables.
C10_Witness ==
    /\ msgRes.op = "send"
    /\ msgRes.status = 404
    /\ users # {}
    /\ messages # {}

(***************************************************************************)
(* Claims about POST /api/feedback and generateDesignFeedback, checked     *)
(* under FeedbackSpec.                                                     *)
(***************************************************************************)
\* The frames array of a request body, and whether the request passes the
\* validation as the claims state it.
FramesOf(body) == Field(JObj(body), "frames")

NonEmptyArray(body) ==
    FramesOf(body).t = "array" /\ Len(FramesOf(body).items) > 0

\* A frame whose processing fails: it is null or it has no frameData.
FailingFrame(frame) ==
    \/ frame.t # "object"
    \/ "frameData" \notin DOMAIN frame.fields
    \/ frame.fields.frameData = JNull

\* The items of the response from index from + 1 on, n of them.
Block(list, from, n) == SubSeq(list, from + 1, from + n)

RECURSIVE SumTo(_, _)
SumTo(sizes, k) == IF k = 0 THEN 0 ELSE sizes[k] + SumTo(sizes, k - 1)

\* C11: a request with a non-empty frames array is answered 200 with the
\* list; every frame is processed, and a frame whose processing fails
\* (it has no frameData) yields the single placeholder item with its
\* frameId.
C11_FrameIsolation ==
    (fbRes.op = "feedback" /\ NonEmptyArray(fbRes.body))
    => /\ fbRes.status = 200
       /\ Len(fbRes.counts) = Len(FramesOf(fbRes.body).items)
       /\ \A k \in 1..Len(fbRes.counts) :
             FailingFrame(FramesOf(fbRes.body).items[k])
             => Block(fbRes.list, SumTo(fbRes.counts, k - 1), fbRes.counts[k])
                  = <<[frameId |-> Field(FramesOf(fbRes.body).items[k], "frameId"),
                       feedback |-> JStr("Unable to generate feedback at this time"),
                       category |-> JStr("general"),
                       confidence |-> JNum(0)]>>

\* The items generateSimpleFeedback can return: one of its four texts, one
\* of its four categories, a confidence from 0.7 up to 0.9.
SimpleTexts ==
    {"Great design! Consider testing on different screen sizes.",
     "Nice work! Ensure sufficient contrast for accessibility.",
     "Clean layout! Make sure spacing is consistent.",
     "Good visual design! Consider the user experience on mobile."}

SimpleCategories == {"layout", "accessibility", "spacing", "responsive"}

IsSimpleFeedback(list) ==
    /\ Len(list) = 1
    /\ list[1].feedback.t = "string" /\ list[1].feedback.s \in SimpleTexts
    /\ list[1].category.t = "string" /\ list[1].category.s \in SimpleCategories
    /\ list[1].confidence.t = "number"
    /\ list[1].confidence.n >= 70 /\ list[1].confidence.n < 90

HasAllFields(item) ==
    /\ DOMAIN item = {"feedback", "category", "confidence"}
    /\ item.feedback # Undefined
    /\ item.category # Undefined
    /\ item.confidence # Undefined

\* The call of generateDesignFeedback that the request is at.
AtFrame == fb.pc \in {"frame", "fetch"}
CurrentFrameData == FrameDataWithPNG(fb.frames[fb.i])

\* An outcome with which the try block throws.
Throwing(frameData, outcome) ==
    outcome.kind # "text" \/ PromptThrows(frameData)

\* C12: whatever the outcome of the external call, generateDesignFeedback
\* resolves with a list of at least one item, each with feedback, category
\* and confidence; without API key, and when anything throws, the list is
\* the single item of generateSimpleFeedback.
C12_NeverEmpty ==
    AtFrame =>
      \A outcome \in FeedbackOutcomes, rnd \in Randoms :
        LET list == generateDesignFeedback(CurrentFrameData, outcome, rnd)
        IN  /\ Len(list) >= 1
            /\ \A i \in 1..Len(list) : HasAllFields(list[i])
            /\ (~hasKey \/ Throwing(CurrentFrameData, outcome))
                 => IsSimpleFeedback(list)

\* A request was answered after a call to the API: one frame, one item,
\* which is an item of generateSimpleFeedback.
C12_Witness ==
    /\ fbRes.op = "feedback" /\ fbRes.status = 200
    /\ hasKey
    /\ Len(fbRes.calls) = 1
    /\ Len(fbRes.list) = 1
    /\ fbRes.list[1].feedback = JStr("Great design! Consider testing on different screen sizes.")

\* The response list splits into one block of sizes[k] >= 1 items for each
\* frame k, in order, each item with the frameId of its frame; every call
\* to the API for frame k started when exactly the blocks of the frames
\* before k were appended.
SplitsByFrame(frames, list, calls, sizes) ==
    /\ SumTo(sizes, Len(frames)) = Len(list)
    /\ \A k \in 1..Len(frames) :
          \A item \in {Block(list, SumTo(sizes, k - 1), sizes[k])[j] :
                          j \in 1..sizes[k]} :
             item.frameId = Field(frames[k], "frameId")
    /\ \A c \in 1..Len(calls) :
          calls[c].appended = SumTo(sizes, calls[c].frame - 1)

\* C13: the response to a request that passes the validation is the list
\* that holds, for each frame in input order, one or more consecutive items
\* with that frame's frameId and nothing else, and the call for a frame
\* starts only after the items of the frame before it were appended.
C13_AttributionAndOrder ==
    (fbRes.op = "feedback" /\ NonEmptyArray(fbRes.body))
    => /\ fbRes.status = 200
       /\ \E sizes \in [1..Len(FramesOf(fbRes.body).items) ->
                            1..(Len(fbRes.list) + 1)] :
             SplitsByFrame(FramesOf(fbRes.body).items, fbRes.list,
                           fbRes.calls, sizes)

\* The stages of the parsing as the claim states them.
BracketedJson(text) ==
    /\ MatchBetween(text, "[", "]").found
    /\ ~ParseJson(MatchBetween(text, "[", "]").text).threw
    /\ ParseJson(MatchBetween(text, "[", "]").text).value.t = "array"
    /\ Len(ParseJson(MatchBetween(text, "[", "]").text).value.items) > 0

BracedJson(text) ==
    /\ MatchBetween(text, "{", "}").found
    /\ ~ParseJson(MatchBetween(text, "{", "}").text).threw
    /\ ParseJson(MatchBetween(text, "{", "}").text).value.t = "object"

\* The item made of a parsed element: its category and confidence, or
\* their defaults.
ItemOfElement(item, element) ==
    /\ item.category = (IF Truthy(Field(element, "category"))
                        THEN Field(element, "category") ELSE JStr("general"))
    /\ item.confidence = (IF Truthy(Field(element, "confidence"))
                          THEN Field(element, "confidence") ELSE JNum(80))

PrecedenceAsClaimed(text, list) ==
    IF BracketedJson(text)
    THEN LET elements == ParseJson(MatchBetween(text, "[", "]").text).value.items
         IN  /\ Len(list) = Len(elements)
             /\ \A i \in 1..Len(elements) : ItemOfElement(list[i], elements[i])
    ELSE IF BracedJson(text)
    THEN /\ Len(list) = 1
         /\ ItemOfElement(list[1],
                          ParseJson(MatchBetween(text, "{", "}").text).value)
    ELSE IF Len(parseNumberedListFormat(text)) >= 1
    THEN list = parseNumberedListFormat(text)
    ELSE /\ Len(list) = 1
         /\ list[1].feedback = JChars(CleanMarkdown(text))
         /\ list[1].category = JStr("general")
         /\ list[1].confidence = JNum(75)

\* C14: the list that generateDesignFeedback makes of the model's text
\* comes from the first stage that succeeds: the bracketed match that
\* parses as a non-empty array (one item for each element), the braced
\* match that parses as an object (one item), the numbered list, the raw
\* text with confidence 0.75; never from generateSimpleFeedback.
C14_ParsingPrecedence ==
    (AtFrame /\ CallsApi(CurrentFrameData)) =>
      \A text \in FeedbackTexts, rnd \in Randoms :
        PrecedenceAsClaimed(text,
            generateDesignFeedback(CurrentFrameData,
                                   [kind |-> "text", text |-> text], rnd))

\* The frames of a body do not pass the validation, as the claim states it:
\* missing, not an array, or an empty array.
BadFrames(body) ==
    \/ "frames" \notin DOMAIN body
    \/ body.frames.t # "array"
    \/ body.frames = JArr(<<>>)

\* C17: a request whose frames is missing, is not an array or is an empty
\* array is answered 400 with the error "Missing or invalid frames array",
\* and no turn of the loop, hence no call to the API, begins for it.
C17_FramesValidation ==
    [][\A body \in FeedbackBodies :
         (FeedbackArrives(body) /\ BadFrames(body))
         => /\ fbRes'.op = "feedback"
            /\ fbRes'.status = 400
            /\ fbRes'.error = "Missing or invalid frames array"
            /\ fbRes'.calls = <<>>
            /\ fb'.pc = "idle"]_vars

\* The empty array was answered 400.
C17_Witness ==
    /\ fbRes.op = "feedback"
    /\ fbRes.status = 400
    /\ fbRes.body = [frames |-> JArr(<<>>)]

(***************************************************************************)
(* Claims about POST /api/chat, checked under ChatSpec.                    *)
(***************************************************************************)
\* s contains p as a substring.
Contains(s, p) ==
    \E i \in 1..(Len(s) - Len(p) + 1) : SubSeq(s, i, i + Len(p) - 1) = p

\* The entries of the knowledge base, by their place in the declaration,
\* that have a pattern which the lower-cased message contains.
MatchingEntries(message) ==
    {k \in 1..Len(CAT_KNOWLEDGE_BASE) :
        \E j \in 1..Len(SplitBar(CAT_KNOWLEDGE_BASE[k].patterns)) :
            Contains(ToLowerCase(message),
                     SplitBar(CAT_KNOWLEDGE_BASE[k].patterns)[j])}

FirstMatchingEntry(message) ==
    CHOOSE k \in MatchingEntries(message) :
        \A j \in MatchingEntries(message) : k <= j

\* The body carries a message the handler accepts: a non-empty string.
HasMessage(body) ==
    /\ "message" \in DOMAIN body
    /\ body.message.t = "chars"
    /\ body.message.s # <<>>

\* C15: a message that contains a pattern of the knowledge base is answered
\* at once with the answer of the first matching entry in declaration
\* order and source "knowledge_base", with and without API key and
\* whatever the conversationHistory, and no request to the LLM is made;
\* a message that matches nothing goes to the LLM when the key is set (the
\* reply of a successful call has source "ai") and gets the static reply
\* with source "fallback" when it is not.
C15_KnowledgeBaseFirst ==
    [][/\ (chat.pc = "idle" /\ <<chat, chatRes>>' # <<chat, chatRes>>)
            => LET body == IF chat'.pc = "fetch" THEN chat'.body
                           ELSE chatRes'.req
               IN  HasMessage(body)
                   => IF MatchingEntries(body.message.s) # {}
                      THEN /\ chatRes'.status = 200
                           /\ chatRes'.reply =
                                JStr(CAT_KNOWLEDGE_BASE[
                                       FirstMatchingEntry(body.message.s)].answer)
                           /\ chatRes'.source = "knowledge_base"
                           /\ chat'.pc = "idle"
                      ELSE IF hasKey
                      THEN chat'.pc = "fetch" /\ UNCHANGED chatRes
                      ELSE /\ chatRes'.status = 200
                           /\ chatRes'.source = "fallback"
                           /\ chat'.pc = "idle"
       /\ (chat.pc = "fetch" /\ chat'.pc = "idle")
            => /\ MatchingEntries(chat.body.message.s) = {}
               /\ chatRes'.req = chat.body
               /\ chatRes'.status = 200 => chatRes'.source = "ai"]_vars

\* The key is set, a history is sent, and a message that two entries match
\* was answered with the answer of the first of them.
C15_Witness ==
    /\ hasKey
    /\ chatRes.op = "chat" /\ chatRes.status = 200
    /\ chatRes.source = "knowledge_base"
    /\ "conversationHistory" \in DOMAIN chatRes.req
    /\ Cardinality(MatchingEntries(chatRes.req.message.s)) = 2
    /\ chatRes.reply = JStr(CAT_KNOWLEDGE_BASE[2].answer)

(***************************************************************************)
(* Claims about the typing indicator                                       *)
(***************************************************************************)
\* The sets of typing_status by one user in one conversation, as positions
\* of the history.
SetsBy(convId, userId) ==
    {i \in 1..Len(typingLog) :
        typingLog[i].conversation_id = convId /\ typingLog[i].user_id = userId}

\* The user's most recent set in the conversation said "typing" and is less
\* than 10 seconds old.
TypingAsClaimed(convId, userId) ==
    \E i \in SetsBy(convId, userId) :
        /\ \A j \in SetsBy(convId, userId) : j <= i
        /\ typingLog[i].is_typing = JBool(TRUE)
        /\ dbNow - typingLog[i].at < 10

ListedIn(response) ==
    {response.typing_users[i].user_id : i \in 1..Len(response.typing_users)}

OneRowPerUser ==
    \A t1 \in typing_status, t2 \in typing_status :
        (t1.conversation_id = t2.conversation_id /\ t1.user_id = t2.user_id)
            => t1 = t2

\* C16: GET /api/typing/C lists a user exactly when the user's most recent
\* set that POST /api/typing/set stored for conversation C had is_typing
\* true and is less than 10 seconds old at the query, so a later set with
\* is_typing false, or 10 seconds without a set, removes the user; and under
\* every interleaving of set calls typing_status has at most one row per
\* (conversation_id, user_id).
C16_TypingIndicator ==
    [][/\ OneRowPerUser'
       /\ (msgRes' # msgRes /\ msgRes'.op = "typing")
             => /\ msgRes'.status = 200
                /\ ListedIn(msgRes') =
                      {u.id : u \in {v \in users :
                          TypingAsClaimed(msgRes'.conversation_id, v.id)}}
                /\ Len(msgRes'.typing_users) = Cardinality(ListedIn(msgRes'))]_vars

\* Reached: a query lists a, who set "typing" in this very second, and not
\* b, whose "typing" is 10 seconds old.
C16_Witness ==
    /\ msgRes.op = "typing"
    /\ msgRes.conversation_id = 1
    /\ ListedIn(msgRes) = {1}
    /\ msgRes.typing_users = TypingUsers(1)
    /\ \E i \in SetsBy(1, 2) :
          typingLog[i].is_typing = JBool(TRUE) /\ dbNow - typingLog[i].at = 10
    /\ \E i \in SetsBy(1, 1) : typingLog[i].at = dbNow

(***************************************************************************)
(* Claims about overlapping requests                                       *)
(***************************************************************************)
PairOf(c) == {c.user1_id, c.user2_id}

\* C18: in every reachable state, under every interleaving of
\* POST /api/messages/send requests, there is at most one conversations row
\* per unordered pair of users, so all messages between two users are in
\* one conversation.
C18_OneConversationPerPair ==
    /\ \A c1 \in conversations, c2 \in conversations :
          PairOf(c1) = PairOf(c2) => c1 = c2
    /\ \A m1 \in messages, m2 \in messages :
          (\E c1 \in conversations, c2 \in conversations :
              /\ c1.id = m1.conversation_id
              /\ c2.id = m2.conversation_id
              /\ PairOf(c1) = PairOf(c2))
            => m1.conversation_id = m2.conversation_id

RegisterRaced(s) ==
    /\ rq[s].pc = "done"
    /\ rq[s].op = "register"
    /\ "unregistered" \in DOMAIN rq[s]
    /\ rq[s].unregistered

\* C20: when two POST /api/messages/register requests for the same name
\* both arrived before the name had a row, then once both have answered the
\* users table has exactly one row for the name and both answered 200 with
\* that row's id, one with created true and the other with created false.
C20_ConcurrentRegister ==
    \A s1 \in Slots, s2 \in Slots :
        (/\ s1 # s2
         /\ RegisterRaced(s1)
         /\ RegisterRaced(s2)
         /\ rq[s1].body.cat_name = rq[s2].body.cat_name)
          => /\ Cardinality(SelectUser(rq[s1].body.cat_name)) = 1
             /\ rq[s1].res.status = 200
             /\ rq[s2].res.status = 200
             /\ \A u \in SelectUser(rq[s1].body.cat_name) :
                   rq[s1].res.id = u.id /\ rq[s2].res.id = u.id
             /\ rq[s1].res.created # rq[s2].res.created

\* The requests that wait for a generation started for the date.
GeneratingFor(date) ==
    {r \in SpeechReqs : sp[r].pc = "fetch" /\ sp[r].today = date}

Dates == 1..Today(MaxClock)

\* C19: under every interleaving of GET /api/speech/daily requests on one
\* date, no generation is started for a date while another for that date is
\* under way, and a response for a date carries the speeches of the
\* response before it when that one was for the same date.
C19_OneGenerationPerDay ==
    [][/\ \A date \in Dates : Cardinality(GeneratingFor(date)') <= 1
       /\ (/\ speechRes.status = 200
           /\ speechRes'.status = 200
           /\ speechRes'.date = speechRes.date)
             => speechRes'.categories = speechRes.categories]_vars

(***************************************************************************)
(* Claims about the rows a send leaves behind                              *)
(***************************************************************************)
SelfSend(name) ==
    [sender_cat_name |-> name, recipient_cat_name |-> name, content |-> "hi"]

\* C22: every conversations row has user1_id different from user2_id, and a
\* POST /api/messages/send whose sender_cat_name equals its
\* recipient_cat_name creates neither a conversation nor a message.
C22_TwoPartyConversations ==
    [][/\ \A c \in conversations' : c.user1_id # c.user2_id
       /\ \A name \in CatNames :
             Send(SelfSend(name)) => UNCHANGED <<conversations, messages>>]_vars

SendDone(s) == rq[s].pc = "done" /\ rq[s].op = "send"

\* C21: a POST /api/messages/send that ends with a 500 response has
\* inserted no conversation, and once a send has completed, with no other
\* send under way, no conversation row is without a message.
C21_SendAllOrNothing ==
    /\ \A s \in Slots :
          (SendDone(s) /\ rq[s].res.status = 500)
            => ~("created" \in DOMAIN rq[s] /\ rq[s].created)
    /\ (SendsInFlight = 0 /\ \E s \in Slots : SendDone(s))
          => \A c \in conversations : MessagesOf(c.id) # {}

====
